---- MODULE Spec2Model ----
(***************************************************************************)
(* s1o: the file-pair storage engine of the on-disk spatially indexed      *)
(* dataset (src/dataset.hpp) with its in-memory and disk R-tree adapters.  *)
(* The meta file is a header followed by fixed-size rows, the data file a  *)
(* sequence of bytes, the R-tree sidecar a list of (location, uid) nodes.  *)
(* One dataset object at a time owns the files (single writer).            *)
(***************************************************************************)
EXTENDS Integers, Sequences, FiniteSets, TLC

VARIABLES mf,   \* the meta file   <basename>.meta
          df,   \* the data file   <basename>.data
          idx,  \* the disk R-tree sidecar <basename>.ridx
          ds,   \* the dataset object (closed, or its const members)
          pp,   \* the push_element call in flight (its locals and position)
          ret,  \* the last call made and what it returned or threw
          made, \* the caller's sequence the files were bulk-created from,
                \* while no later call has changed them
          sessions \* the number of dataset objects constructed so far

vars == <<mf, df, idx, ds, pp, ret, made, sessions>>

(***************************************************************************)
(* Bounds of the model.                                                    *)
(***************************************************************************)
MaxRows == 2
MaxSlots == 2
MaxSessions == 2

(***************************************************************************)
(* Program constants.                                                      *)
(***************************************************************************)
S1O_OPEN_WRITE == 1
S1O_OPEN_TRUNC == 2
S1O_FLAGS_RWP == 1
S1O_FLAGS_NO_DATA == 2
S1O_FLAGS_ALLOW_UNSORTED == 4
S1O_FLAGS_NO_DATA_CHECK == 8

\* static const int: 0xCA02178F and 0xDF349172 as 32-bit signed values
CLEAN_BIT_MAGIC == -905832561
DIRTY_BIT_MAGIC == -550203022

\* sizeof(meta_base_structure), packed: 7 unsigned int and char magic[8]
meta_base_structure_size == 36
\* my_adapter::get_meta_check_size(): check.size() + 1
meta_check_size == 45
\* sizeof(my_metadata): int, int, float, float, short, char, padded to 4
metadata_szof == 20
\* sizeof(file_metadata<my_metadata>): + foffset_t at 24, int at 32, padded to 8
meta_szof == 40
\* static_cast<size_t>(-1), held as the largest 32-bit integer of TLC
max_elements_unlimited == 2147483647

Adapters == {"rtree", "rtree_disk_slim"}

HasBit(x, b) == (x \div b) % 2 = 1

Min(a, b) == IF a < b THEN a ELSE b
Max(a, b) == IF a < b THEN b ELSE a

\* C++ integer division and remainder (truncation toward zero)
CDiv(a, b) == IF a >= 0 THEN a \div b ELSE -((-a) \div b)
CMod(a, b) == a - CDiv(a, b) * b

(***************************************************************************)
(* Sizes.                                                                  *)
(***************************************************************************)
align64(size) == IF size = 0 THEN 64 ELSE (((size - 1) \div 64) + 1) * 64

compute_meta_file_header_size == align64(meta_check_size + meta_base_structure_size)

file_metadata_size == align64(meta_szof)

\* a size computation that would keep the header for an empty sequence
meta_file_size_with_header(num_elements) ==
    compute_meta_file_header_size + file_metadata_size * num_elements

compute_meta_file_size(num_elements) ==
    IF num_elements = 0 THEN 0
    ELSE compute_meta_file_header_size + file_metadata_size * num_elements

RECURSIVE SumAligned(_)
SumAligned(metas) ==
    IF metas = <<>> THEN 0
    ELSE align64(Head(metas).size) + SumAligned(Tail(metas))

compute_data_file_size(metas, num_slots) == SumAligned(metas) * num_slots

compute_num_elements(m) ==
    CDiv(m.size - compute_meta_file_header_size, file_metadata_size)

(***************************************************************************)
(* Files.                                                                  *)
(***************************************************************************)
ZeroRow == [uid |-> 0, size |-> 0, loc |-> 0, data_offset |-> 0, clean_bit |-> 0]

\* base and check hold the bytes of the header structure and of the check
\* block
NoFile ==
    [exists |-> FALSE, size |-> 0, base |-> <<>>, check |-> <<>>, rows |-> <<>>]
NoData == [exists |-> FALSE, bytes |-> <<>>]
NoIndex == [exists |-> FALSE, nodes |-> <<>>]

Zeros(n) == [i \in 1..n |-> 0]

\* pwrite: count bytes of buf at offset off; a hole reads as zeros
WriteAt(bytes, off, buf) ==
    IF Len(buf) = 0 THEN bytes
    ELSE [i \in 1..Max(Len(bytes), off + Len(buf)) |->
            IF i > off /\ i <= off + Len(buf) THEN buf[i - off]
            ELSE IF i <= Len(bytes) THEN bytes[i] ELSE 0]

\* pread: at most count bytes, fewer at the end of the file
ReadAt(bytes, off, count) ==
    IF off >= Len(bytes) THEN <<>>
    ELSE SubSeq(bytes, off + 1, Min(off + count, Len(bytes)))

\* the rows a meta file of this size holds: the whole ones, and the last one
\* once its meta_szof bytes are there
RowsIn(size) ==
    IF size < compute_meta_file_header_size THEN 0
    ELSE LET body == size - compute_meta_file_header_size
         IN (body \div file_metadata_size) +
            (IF body % file_metadata_size >= meta_szof THEN 1 ELSE 0)

(***************************************************************************)
(* _dataset_fd_base: opening, creating and mapping the two files.          *)
(***************************************************************************)
\* the header structure and the check block of a file just created
ZeroBase == Zeros(meta_base_structure_size)
ZeroCheck == Zeros(meta_check_size)

\* open_file on the meta file: the status and the file it leaves
open_meta_file(m, can_write, new_file, new_size) ==
    IF new_file /\ ~can_write THEN [status |-> "create_without_write", f |-> m]
    ELSE IF ~new_file /\ new_size # 0 THEN [status |-> "open_with_size", f |-> m]
    ELSE IF ~new_file /\ ~m.exists THEN [status |-> "io_exception", f |-> m]
    ELSE IF ~new_file THEN [status |-> "ok", f |-> m]
    ELSE [status |-> "ok",
          f |-> [exists |-> TRUE, size |-> new_size,
                 base |-> SubSeq(ZeroBase, 1, Min(new_size, meta_base_structure_size)),
                 check |-> SubSeq(ZeroCheck, 1,
                                  Min(new_size - Min(new_size, meta_base_structure_size),
                                      meta_check_size)),
                 rows |-> [i \in 1..RowsIn(new_size) |-> ZeroRow]]]

\* open_file on the data file
open_data_file(d, can_write, new_file, new_size) ==
    IF new_file /\ ~can_write THEN [status |-> "create_without_write", f |-> d]
    ELSE IF ~new_file /\ new_size # 0 THEN [status |-> "open_with_size", f |-> d]
    ELSE IF ~new_file /\ ~d.exists THEN [status |-> "io_exception", f |-> d]
    ELSE IF ~new_file THEN [status |-> "ok", f |-> d]
    ELSE [status |-> "ok", f |-> [exists |-> TRUE, bytes |-> Zeros(new_size)]]

\* map_fd: a file of size zero cannot be mapped
map_fd(size) == IF size = 0 THEN "empty_mmap" ELSE "ok"

\* the constructor of _dataset_fd_base, in the order of its initializers
fd_base(m, d, mode, no_data, map_fds, new_meta_size, new_data_size) ==
    LET can_write == HasBit(mode, S1O_OPEN_WRITE)
        new_file == HasBit(mode, S1O_OPEN_TRUNC)
        om == open_meta_file(m, can_write, new_file, new_meta_size)
        od == IF no_data THEN [status |-> "ok", f |-> d]
              ELSE open_data_file(d, can_write, new_file, new_data_size)
    IN IF om.status # "ok" THEN [status |-> om.status, mf |-> m, df |-> d]
       ELSE IF od.status # "ok" THEN [status |-> od.status, mf |-> om.f, df |-> d]
       ELSE IF map_fds /\ map_fd(om.f.size) # "ok"
            THEN [status |-> map_fd(om.f.size), mf |-> om.f, df |-> od.f]
       ELSE IF map_fds /\ ~no_data /\ map_fd(Len(od.f.bytes)) # "ok"
            THEN [status |-> map_fd(Len(od.f.bytes)), mf |-> om.f, df |-> od.f]
       ELSE [status |-> "ok", mf |-> om.f, df |-> od.f]

\* a slot size that would ignore the number of slots
whole_file_slot_size(d, num_slots, ub) == [status |-> "ok", val |-> Len(d.bytes)]

\* compute_slot_size.  With num_slots = 0 the division is undefined: the
\* build either traps (trap) or yields remainder = dividend and quotient 0
\* (zero), chosen by ub.
compute_slot_size(d, num_slots, ub) ==
    LET data_size == Len(d.bytes)
    IN IF num_slots = 0
       THEN IF ub = "trap" THEN [status |-> "SIGFPE", val |-> 0]
            ELSE IF data_size # 0 THEN [status |-> "extra_slot_bytes", val |-> 0]
            ELSE [status |-> "ok", val |-> 0]
       ELSE IF data_size % num_slots # 0
            THEN [status |-> "extra_slot_bytes", val |-> 0]
       ELSE [status |-> "ok", val |-> data_size \div num_slots]

\* assert_meta_file_size
assert_meta_file_size(m) ==
    IF CMod(m.size - compute_meta_file_header_size, file_metadata_size) # 0
    THEN "extra_meta_bytes" ELSE "ok"

\* fill_base_data: the bytes of meta_base_structure, every field but the
\* magic an unsigned int stored low byte first
fill_base_data ==
    <<1, 0, 0, 0,                       \* one
      4, 0, 0, 0,                       \* uintsz = sizeof(unsigned int)
      8, 0, 0, 0,                       \* fofsz = sizeof(foffset_t)
      45, 0, 0, 0,                      \* checksz = meta_check_size
      64, 0, 0, 0,                      \* metasz = file_metadata_size
      1, 0, 0, 0,                       \* version = (0 << 16) | 1
      0, 0, 0, 0,                       \* revision
      67, 66, 69, 78, 69, 83, 49, 79>>  \* magic "CBENES1O"

\* get_meta_check_ptr: "uid@i4/size@i4/x@f4/y@f4/value1@i2/value2@i1" and
\* its terminator
fill_meta_check_data ==
    <<117, 105, 100, 64, 105, 52, 47, 115, 105, 122, 101, 64, 105, 52, 47,
      120, 64, 102, 52, 47, 121, 64, 102, 52, 47, 118, 97, 108, 117, 101,
      49, 64, 105, 50, 47, 118, 97, 108, 117, 101, 50, 64, 105, 49, 0>>

\* std::mismatch: the distance to the first position where actual differs
\* from expected, Len(expected) when there is none
mismatch(expected, actual) ==
    IF actual = expected THEN Len(expected)
    ELSE Cardinality(UNION {{i \in 1..Len(e) :
                                /\ i <= Len(a)
                                /\ SubSeq(a, 1, i) = SubSeq(e, 1, i)} :
                            e \in {expected}, a \in {actual}})

\* a comparison that would look at the first byte of the structure alone
mismatch_first_byte(base_data) ==
    IF base_data # <<>> /\ Head(base_data) = Head(fill_base_data)
    THEN meta_base_structure_size ELSE 0

\* assert_base_data: the position_value of its base_data_mismatch
base_data_position(base_data) == mismatch(fill_base_data, base_data)

\* assert_base_data
assert_base_data(base_data) ==
    IF base_data_position(base_data) # meta_base_structure_size
    THEN "base_data_mismatch" ELSE "ok"

\* assert_meta_check_data: the position_value of its check_data_mismatch
check_data_position(meta_check) == mismatch(fill_meta_check_data, meta_check)

\* assert_meta_check_data
assert_meta_check_data(meta_check) ==
    IF check_data_position(meta_check) # meta_check_size
    THEN "check_data_mismatch" ELSE "ok"

\* init_meta_mem: fill the mapped header, or validate it
init_meta_mem(m, new_ds) ==
    IF new_ds
    THEN [status |-> "ok",
          mf |-> [m EXCEPT !.base = fill_base_data,
                           !.check = fill_meta_check_data]]
    ELSE IF assert_base_data(m.base) # "ok"
         THEN [status |-> "base_data_mismatch", mf |-> m]
    ELSE IF assert_meta_check_data(m.check) # "ok"
         THEN [status |-> "check_data_mismatch", mf |-> m]
    ELSE [status |-> assert_meta_file_size(m), mf |-> m]

\* init_meta_fd: write the header and pad it, or read and validate it
init_meta_fd(m, new_ds) ==
    IF new_ds
    THEN [status |-> "ok",
          mf |-> [m EXCEPT !.base = fill_base_data,
                           !.check = fill_meta_check_data,
                           !.size = Max(m.size, compute_meta_file_header_size)]]
    ELSE IF m.size < meta_base_structure_size
         THEN [status |-> "incomplete_read", mf |-> m]
    ELSE IF m.size < meta_base_structure_size + meta_check_size
         THEN [status |-> "check_data_mismatch", mf |-> m]
    ELSE IF assert_base_data(m.base) # "ok"
         THEN [status |-> "base_data_mismatch", mf |-> m]
    ELSE IF assert_meta_check_data(m.check) # "ok"
         THEN [status |-> "check_data_mismatch", mf |-> m]
    ELSE [status |-> assert_meta_file_size(m), mf |-> m]

(***************************************************************************)
(* Spatial adapters.  The order in which an R-tree enumerates its nodes is *)
(* a function of the nodes it was built from; it is taken here as the      *)
(* order of (location, uid).                                               *)
(***************************************************************************)
NodeLess(a, b) == a[1] < b[1] \/ (a[1] = b[1] /\ a[2] < b[2])

RECURSIVE InsertSorted(_, _)
InsertSorted(e, s) ==
    IF s = <<>> THEN <<e>>
    ELSE IF NodeLess(e, Head(s)) THEN <<e>> \o s
    ELSE <<Head(s)>> \o InsertSorted(e, Tail(s))

\* std::sort on pairs, and the packing of an R-tree
RECURSIVE SortPairs(_)
SortPairs(s) == IF s = <<>> THEN <<>> ELSE InsertSorted(Head(s), SortPairs(Tail(s)))

\* the nodes (location, uid) of the elements 1..n as the tree enumerates them
TreeNodes(rows, n) == SortPairs([i \in 1..n |-> <<rows[i].loc, i>>])

NodeUids(nodes) == [i \in 1..Len(nodes) |-> nodes[i][2]]

\* an adapter that would reopen its tree without counting its elements
initialize_uncounted(adapter, x, rows, n, is_new, can_write) ==
    IF adapter = "rtree"
    THEN [status |-> "ok", idx |-> x, storage |-> NodeUids(TreeNodes(rows, n))]
    ELSE IF is_new
    THEN IF ~can_write THEN [status |-> "read_only", idx |-> x, storage |-> <<>>]
         ELSE [status |-> "ok",
               idx |-> [exists |-> TRUE, nodes |-> TreeNodes(rows, n)],
               storage |-> NodeUids(TreeNodes(rows, n))]
    ELSE IF ~x.exists
         THEN [status |-> "interprocess_exception", idx |-> x, storage |-> <<>>]
    ELSE [status |-> "ok", idx |-> x,
          storage |-> [i \in 1..Min(n, Len(x.nodes)) |-> i]]

\* rtree::initialize (in memory, rebuilt at each open) and
\* rtree_disk_slim::initialize (created once, reopened afterwards)
initialize(adapter, x, rows, n, is_new, can_write) ==
    IF adapter = "rtree"
    THEN [status |-> "ok", idx |-> x, storage |-> NodeUids(TreeNodes(rows, n))]
    ELSE IF is_new
    THEN IF ~can_write THEN [status |-> "read_only", idx |-> x, storage |-> <<>>]
         ELSE [status |-> "ok",
               idx |-> [exists |-> TRUE, nodes |-> TreeNodes(rows, n)],
               storage |-> NodeUids(TreeNodes(rows, n))]
    ELSE IF ~x.exists
         THEN [status |-> "interprocess_exception", idx |-> x, storage |-> <<>>]
    ELSE IF Len(x.nodes) # n
         THEN [status |-> "inconsistent_index", idx |-> x, storage |-> <<>>]
    ELSE [status |-> "ok", idx |-> x, storage |-> NodeUids(x.nodes)]

\* the walk of init_spstruct_mem: data pointers must not decrease along the
\* storage order
IsSortedData(rows, storage) ==
    \A i \in 1..(Len(storage) - 1) :
        rows[storage[i]].data_offset <= rows[storage[i + 1]].data_offset

init_spstruct_mem(adapter, x, rows, n, new_ds, can_write, allow_unsorted, no_data) ==
    LET r == initialize(adapter, x, rows, n, new_ds, can_write)
    IN IF r.status # "ok" THEN r
       ELSE IF ~allow_unsorted /\ ~no_data /\ ~IsSortedData(rows, r.storage)
            THEN [r EXCEPT !.status = "unsorted_data"]
       ELSE r

(***************************************************************************)
(* The integrity check of the open constructor.                            *)
(***************************************************************************)
\* get_data_info_fd / get_data_info_mem: the (data_offset, size) pairs
get_data_info(rows, n) == [i \in 1..n |-> <<rows[i].data_offset, rows[i].size>>]

\* read_metadata refuses a row whose stored uid is not its position
RowUidsMatch(rows, n) == \A i \in 1..n : rows[i].uid = i

RECURSIVE WalkOffsets(_, _)
\* the offset reached by the gapless walk, or -1 at the first mismatch
WalkOffsets(info, current_offset) ==
    IF info = <<>> THEN current_offset
    ELSE IF current_offset # Head(info)[1] THEN -1
    ELSE WalkOffsets(Tail(info), current_offset + align64(Head(info)[2]))

\* an integrity check that would accept everything
unchecked_data(rows, n, can_rwp, slot_size, num_slots, real_size) == "ok"

check_data(rows, n, can_rwp, slot_size, num_slots, real_size) ==
    IF can_rwp /\ ~RowUidsMatch(rows, n) THEN "inconsistent_meta"
    ELSE LET current_offset == WalkOffsets(SortPairs(get_data_info(rows, n)), 0)
         IN IF current_offset = -1 THEN "inconsistent_data"
            ELSE IF current_offset # slot_size THEN "inconsistent_data"
            ELSE IF current_offset * num_slots # real_size THEN "inconsistent_data"
            ELSE "ok"

(***************************************************************************)
(* The dataset object.                                                     *)
(***************************************************************************)
Closed ==
    [open |-> FALSE, mode |-> 0, flags |-> 0, can_rwp |-> FALSE,
     allow_unsorted |-> FALSE, can_write |-> FALSE, no_data |-> FALSE,
     max_elements |-> 0, num_slots |-> 0, slot_size |-> 0,
     adapter |-> "rtree", storage |-> <<>>]

NoMeta == [uid |-> 0, size |-> 0, loc |-> 0]

Ret(op, status) ==
    [op |-> op, status |-> status, uid |-> 0, slot |-> 0, meta |-> NoMeta,
     hasdata |-> FALSE, data |-> <<>>, list |-> <<>>, at |-> "none"]

Idle ==
    [pc |-> "idle", done |-> "none", meta |-> NoMeta, file_meta |-> ZeroRow,
     pdata |-> 0]

\* the base metadata of a row, as metadata_type sees it
BaseOf(row) == [uid |-> row.uid, size |-> row.size, loc |-> row.loc]

\* a caller's buffer of data_size bytes, every byte carrying the tag
Buffer(size, tag) == [i \in 1..size |-> tag]

\* what a constructor leaves: the files, and the object when it succeeded
\* a constructor that threw: the files as they are left, and no object
Refused(status, m, d, x) ==
    [status |-> status, mf |-> m, df |-> d, idx |-> x, ds |-> Closed]

Built(status, m, d, x, obj) ==
    [status |-> status, mf |-> m, df |-> d, idx |-> x,
     ds |-> IF status = "ok" THEN obj ELSE Closed]

\* an open that would let read/write/push sessions demand sorted data
unsorted_unchecked(can_rwp, allow_unsorted) == "ok"

\* if (_can_rwp && !_allow_unsorted) throw unsorted_data_exception
assert_unsorted_rwp(can_rwp, allow_unsorted) ==
    IF can_rwp /\ ~allow_unsorted THEN "unsorted_data" ELSE "ok"

\* an open that would take any number of slots
any_num_slots(no_data, new_ds, num_slots) == "ok"

\* the num_slots checks of the open constructor: 0 without data, 1 for a
\* new dataset with data
assert_num_slots(no_data, new_ds, num_slots) ==
    IF no_data
    THEN IF num_slots # 0 THEN "invalid_num_slots" ELSE "ok"
    ELSE IF new_ds /\ num_slots # 1 THEN "invalid_num_slots" ELSE "ok"

\* dataset(basepath, mode, flags, num_slots, ...): open or create empty
open_dataset(m, d, x, mode, flags, num_slots, adapter, ub) ==
    LET can_rwp == HasBit(flags, S1O_FLAGS_RWP) \/ HasBit(mode, S1O_OPEN_TRUNC)
        no_data == HasBit(flags, S1O_FLAGS_NO_DATA)
        allow_unsorted == HasBit(flags, S1O_FLAGS_ALLOW_UNSORTED) \/ no_data
        new_ds == HasBit(mode, S1O_OPEN_TRUNC)
        can_write == HasBit(mode, S1O_OPEN_WRITE)
        data_check == ~HasBit(flags, S1O_FLAGS_NO_DATA_CHECK) /\ ~no_data
        f == fd_base(m, d, mode, no_data, ~can_rwp, 0, 0)
        max_elements == IF can_rwp THEN max_elements_unlimited
                        ELSE compute_num_elements(f.mf)
        ss == IF no_data THEN [status |-> "ok", val |-> 0]
              ELSE compute_slot_size(f.df, num_slots, ub)
        im == IF can_rwp THEN init_meta_fd(f.mf, new_ds)
              ELSE init_meta_mem(f.mf, new_ds)
        sp == IF can_rwp THEN [status |-> "ok", idx |-> x, storage |-> <<>>]
              ELSE init_spstruct_mem(adapter, x, im.mf.rows, max_elements,
                       new_ds, can_write, allow_unsorted, no_data)
        num_elements == IF can_rwp THEN compute_num_elements(im.mf)
                        ELSE max_elements
        dc == IF data_check /\ ~new_ds /\ max_elements > 0
              THEN check_data(im.mf.rows, num_elements, can_rwp, ss.val,
                       num_slots, Len(f.df.bytes))
              ELSE "ok"
        obj == [open |-> TRUE, mode |-> mode, flags |-> flags,
                can_rwp |-> can_rwp, allow_unsorted |-> allow_unsorted,
                can_write |-> can_write, no_data |-> no_data,
                max_elements |-> max_elements, num_slots |-> num_slots,
                slot_size |-> ss.val, adapter |-> adapter,
                storage |-> sp.storage]
    IN IF f.status # "ok" THEN Refused(f.status, f.mf, f.df, x)
       ELSE IF ss.status # "ok" THEN Refused(ss.status, f.mf, f.df, x)
       ELSE IF assert_unsorted_rwp(can_rwp, allow_unsorted) # "ok"
            THEN Refused("unsorted_data", f.mf, f.df, x)
       ELSE IF assert_num_slots(no_data, new_ds, num_slots) # "ok"
            THEN Refused("invalid_num_slots", f.mf, f.df, x)
       ELSE IF im.status # "ok" THEN Refused(im.status, im.mf, f.df, x)
       ELSE IF sp.status # "ok" THEN Refused(sp.status, im.mf, f.df, sp.idx)
       ELSE Built(dc, im.mf, f.df, sp.idx, obj)

\* get_element_address / get_element_offset: uid must be in 1..max_elements
uid_in_range(uid, max_elements) == uid # 0 /\ uid <= max_elements

\* a location gate that would let every dataset through
location_data_unchecked(obj) == "ok"

\* assert_has_location_data
assert_has_location_data(obj) ==
    IF obj.can_rwp \/ obj.storage = <<>> THEN "location_data_unavailable" ELSE "ok"

\* assert_is_mmapped
assert_is_mmapped(obj) == IF obj.can_rwp THEN "not_mmapped" ELSE "ok"

\* a data gate that would let datasets without data through
data_unchecked(obj) == "ok"

\* assert_has_data
assert_has_data(obj) == IF obj.no_data THEN "no_data" ELSE "ok"

\* a descriptor gate that would let mapped datasets through
rwp_unchecked(obj) == "ok"

\* assert_can_rwp
assert_can_rwp(obj) == IF ~obj.can_rwp THEN "mmapped_exception" ELSE "ok"

\* the first check of a sequence that fails, "ok" when none does
RECURSIVE FirstFailure(_)
FirstFailure(checks) ==
    IF checks = <<>> THEN "ok"
    ELSE IF Head(checks) # "ok" THEN Head(checks)
    ELSE FirstFailure(Tail(checks))

RECURSIVE fill_metadata_by_position(_, _, _)
\* a fill that would store the k-th element of the sequence in row k
fill_metadata_by_position(rows, metas, max_elements) ==
    IF metas = <<>> THEN [status |-> "ok", rows |-> rows]
    ELSE LET meta == Head(metas)
             at == Len(rows) - Len(metas) + 1
         IN IF ~uid_in_range(meta.uid, max_elements)
            THEN [status |-> "invalid_uid", rows |-> rows]
            ELSE fill_metadata_by_position(
                     [rows EXCEPT ![at] =
                         [uid |-> meta.uid, size |-> meta.size, loc |-> meta.loc,
                          data_offset |-> 0, clean_bit |-> 0]],
                     Tail(metas), max_elements)

RECURSIVE fill_metadata_mem(_, _, _)
\* each source record goes to the row of its own uid, offsets and clean bit 0
fill_metadata_mem(rows, metas, max_elements) ==
    IF metas = <<>> THEN [status |-> "ok", rows |-> rows]
    ELSE LET meta == Head(metas)
         IN IF ~uid_in_range(meta.uid, max_elements)
            THEN [status |-> "invalid_uid", rows |-> rows]
            ELSE fill_metadata_mem(
                     [rows EXCEPT ![meta.uid] =
                         [uid |-> meta.uid, size |-> meta.size, loc |-> meta.loc,
                          data_offset |-> 0, clean_bit |-> 0]],
                     Tail(metas), max_elements)

RECURSIVE set_data_offsets_packed(_, _, _)
\* a walk that would advance by the data size, without aligning it
set_data_offsets_packed(rows, storage, current_offset) ==
    IF storage = <<>> THEN rows
    ELSE LET e == Head(storage)
         IN set_data_offsets_packed(
                [rows EXCEPT ![e].data_offset = current_offset,
                             ![e].clean_bit = CLEAN_BIT_MAGIC],
                Tail(storage), current_offset + rows[e].size)

RECURSIVE set_data_offsets_from_storage(_, _, _)
\* walk the storage order handing out aligned offsets and the clean mark
set_data_offsets_from_storage(rows, storage, current_offset) ==
    IF storage = <<>> THEN rows
    ELSE LET e == Head(storage)
         IN set_data_offsets_from_storage(
                [rows EXCEPT ![e].data_offset = current_offset,
                             ![e].clean_bit = CLEAN_BIT_MAGIC],
                Tail(storage), current_offset + align64(rows[e].size))

\* dataset(basepath, flags, num_slots, metabegin, metaend, ...): bulk create
create_dataset(m, d, x, flags, num_slots, metas, adapter) ==
    LET no_data == HasBit(flags, S1O_FLAGS_NO_DATA)
        f == fd_base(m, d, S1O_OPEN_WRITE + S1O_OPEN_TRUNC, no_data, TRUE,
                 compute_meta_file_size(Len(metas)),
                 compute_data_file_size(metas, num_slots))
        max_elements == compute_num_elements(f.mf)
        ss == IF no_data THEN [status |-> "ok", val |-> 0]
              ELSE compute_slot_size(f.df, num_slots, "trap")
        im == init_meta_mem(f.mf, TRUE)
        fm == fill_metadata_mem(im.mf.rows, metas, max_elements)
        filled == [im.mf EXCEPT !.rows = fm.rows]
        sp == init_spstruct_mem(adapter, x, fm.rows, max_elements,
                  TRUE, TRUE, no_data, no_data)
        placed == IF no_data THEN filled
                  ELSE [filled EXCEPT !.rows =
                           set_data_offsets_from_storage(fm.rows, sp.storage, 0)]
        obj == [open |-> TRUE, mode |-> S1O_OPEN_WRITE + S1O_OPEN_TRUNC,
                flags |-> flags, can_rwp |-> FALSE, allow_unsorted |-> no_data,
                can_write |-> TRUE, no_data |-> no_data,
                max_elements |-> max_elements, num_slots |-> num_slots,
                slot_size |-> ss.val, adapter |-> adapter,
                storage |-> sp.storage]
    IN IF f.status # "ok" THEN Refused(f.status, f.mf, f.df, x)
       ELSE IF ss.status # "ok" THEN Refused(ss.status, f.mf, f.df, x)
       ELSE IF ~no_data /\ num_slots = 0
            THEN Refused("invalid_num_slots", f.mf, f.df, x)
       ELSE IF fm.status # "ok" THEN Refused(fm.status, filled, f.df, x)
       ELSE IF sp.status # "ok" THEN Refused(sp.status, filled, f.df, sp.idx)
       ELSE IF ~no_data /\ sp.storage = <<>>
            THEN Refused("not_initialized", filled, f.df, sp.idx)
       ELSE Built("ok", placed, f.df, sp.idx, obj)

(***************************************************************************)
(* Inputs.                                                                 *)
(***************************************************************************)
\* the elements callers store: (data size, location)
Shapes == {<<65, 2>>, <<0, 1>>}
Elements(uids) == {[uid |-> u, size |-> sh[1], loc |-> sh[2]] : u \in uids, sh \in Shapes}
OpenModes == {0, S1O_OPEN_WRITE, S1O_OPEN_TRUNC, S1O_OPEN_WRITE + S1O_OPEN_TRUNC}
OpenFlags ==
    {0, S1O_FLAGS_RWP, S1O_FLAGS_NO_DATA, S1O_FLAGS_RWP + S1O_FLAGS_NO_DATA,
     S1O_FLAGS_ALLOW_UNSORTED, S1O_FLAGS_RWP + S1O_FLAGS_ALLOW_UNSORTED,
     S1O_FLAGS_NO_DATA_CHECK,
     S1O_FLAGS_RWP + S1O_FLAGS_ALLOW_UNSORTED + S1O_FLAGS_NO_DATA_CHECK}
CreateFlags == {0, S1O_FLAGS_NO_DATA}
\* the outcomes of the undefined division; it is reached with num_slots = 0
UbOutcomes(num_slots) == IF num_slots = 0 THEN {"trap", "zero"} ELSE {"trap"}
\* the adapter is not consulted in a read/write/push session
AdaptersFor(mode, flags) ==
    IF HasBit(flags, S1O_FLAGS_RWP) \/ HasBit(mode, S1O_OPEN_TRUNC)
    THEN {"rtree"} ELSE Adapters

\* the sequences a caller hands to the bulk create: n elements, uids 1..n
\* in any order
Metas(n) ==
    {metas \in [1..n -> Elements(1..n)] :
        \A i, j \in 1..n : i # j => metas[i].uid # metas[j].uid}

(***************************************************************************)
(* Actions.                                                                *)
(***************************************************************************)
Init ==
    /\ mf = NoFile
    /\ df = NoData
    /\ idx = NoIndex
    /\ ds = Closed
    /\ pp = Idle
    /\ ret = Ret("none", "ok")
    /\ made = <<>>
    /\ sessions = 0

KeepMade(m, d) == IF m = mf /\ d = df THEN made ELSE <<>>

Open(mode, flags, num_slots, adapter, ub) ==
    /\ ~ds.open
    /\ pp.pc = "idle"
    /\ sessions < MaxSessions
    /\ sessions' = sessions + 1
    /\ LET r == open_dataset(mf, df, idx, mode, flags, num_slots, adapter, ub)
       IN /\ mf' = r.mf
          /\ df' = r.df
          /\ idx' = r.idx
          /\ ds' = r.ds
          /\ ret' = Ret("open", r.status)
          /\ made' = KeepMade(r.mf, r.df)
    /\ UNCHANGED pp

Create(flags, num_slots, metas, adapter) ==
    /\ ~ds.open
    /\ pp.pc = "idle"
    /\ sessions = 0
    /\ sessions' = sessions + 1
    /\ LET r == create_dataset(mf, df, idx, flags, num_slots, metas, adapter)
       IN /\ mf' = r.mf
          /\ df' = r.df
          /\ idx' = r.idx
          /\ ds' = r.ds
          /\ ret' = Ret("create", r.status)
          /\ made' = IF r.status = "ok" THEN metas ELSE <<>>
    /\ UNCHANGED pp

\* ~dataset: unmap and close, nothing is written
Close ==
    /\ ds.open
    /\ pp.pc = "idle"
    /\ ds' = Closed
    /\ ret' = Ret("close", "ok")
    /\ UNCHANGED <<mf, df, idx, pp, made, sessions>>

\* a push that would trust the uid of the supplied metadata
supplied_uid_file_metadata(meta, uid, data_offset) ==
    [uid |-> meta.uid, size |-> meta.size, loc |-> meta.loc,
     data_offset |-> data_offset, clean_bit |-> CLEAN_BIT_MAGIC]

\* file_metadata file_meta(meta); clean_bit = CLEAN_BIT_MAGIC; set_uid(uid)
new_file_metadata(meta, uid, data_offset) ==
    [uid |-> uid, size |-> meta.size, loc |-> meta.loc,
     data_offset |-> data_offset, clean_bit |-> CLEAN_BIT_MAGIC]

\* the base metadata of the rows, in file order
Stored(m) == [i \in 1..Len(m.rows) |-> BaseOf(m.rows[i])]

\* push checks that would not look at the number of slots
push_element_any_slots(obj, pdata) ==
    IF assert_can_rwp(obj) # "ok" THEN assert_can_rwp(obj)
    ELSE IF pdata # 0 /\ assert_has_data(obj) # "ok" THEN assert_has_data(obj)
    ELSE IF ~obj.can_write THEN "read_only"
    ELSE "ok"

\* the checks of push_element before it writes; pdata = 0 is the null pointer
push_element_checks(obj, pdata) ==
    IF assert_can_rwp(obj) # "ok" THEN assert_can_rwp(obj)
    ELSE IF obj.num_slots > 1 THEN "invalid_num_slots"
    ELSE IF pdata # 0 /\ assert_has_data(obj) # "ok" THEN assert_has_data(obj)
    ELSE IF ~obj.can_write THEN "read_only"
    ELSE "ok"

\* push_elements(metabegin, metaend) up to the first write of its first
\* push_element; an empty range calls nothing
push_elements_checks(obj, metas) ==
    IF metas = <<>> THEN "ok" ELSE push_element_checks(obj, 0)

\* push_element up to its first write: the checks and the new file_metadata
PushBegin(meta, pdata) ==
    /\ ds.open
    /\ pp.pc = "idle"
    /\ compute_num_elements(mf) < MaxRows
    /\ LET uid == compute_num_elements(mf) + 1
           file_meta == new_file_metadata(meta, uid,
                            IF ds.no_data THEN 0 ELSE Len(df.bytes))
           status == push_element_checks(ds, pdata)
       IN IF status # "ok"
          THEN /\ ret' = Ret("push_element", status)
               /\ pp' = pp
          ELSE /\ pp' = [pc |-> IF ds.no_data THEN "meta" ELSE "extend",
                         done |-> "none", meta |-> meta,
                         file_meta |-> file_meta, pdata |-> pdata]
               /\ ret' = [Ret("push_element", "running") EXCEPT !.list = Stored(mf)]
    /\ UNCHANGED <<mf, df, idx, ds, made, sessions>>

\* reserve the aligned space: one zero byte at the new end of the data file
PushExtend ==
    /\ pp.pc = "extend"
    /\ LET new_file_size == pp.file_meta.data_offset + align64(pp.file_meta.size)
       IN df' = [df EXCEPT !.bytes = WriteAt(@, new_file_size - 1, <<0>>)]
    /\ pp' = [pp EXCEPT !.pc = IF pp.pdata # 0 THEN "data" ELSE "meta",
                        !.done = "extension"]
    /\ made' = <<>>
    /\ UNCHANGED <<mf, idx, ds, ret, sessions>>

\* write the caller's data_size bytes at the reserved offset
PushData ==
    /\ pp.pc = "data"
    /\ df' = [df EXCEPT !.bytes = WriteAt(@, pp.file_meta.data_offset,
                                       Buffer(pp.file_meta.size, pp.pdata))]
    /\ pp' = [pp EXCEPT !.pc = "meta", !.done = "data"]
    /\ UNCHANGED <<mf, idx, ds, ret, made, sessions>>

\* write_object(FD_META, file_meta): the meta_szof bytes of the row
PushMeta ==
    /\ pp.pc = "meta"
    /\ LET uid == pp.file_meta.uid
           off == compute_meta_file_header_size + (uid - 1) * file_metadata_size
       IN mf' = [mf EXCEPT !.size = Max(@, off + meta_szof),
                           !.rows = IF uid <= Len(@)
                                    THEN [@ EXCEPT ![uid] = pp.file_meta]
                                    ELSE Append(@, pp.file_meta)]
    /\ pp' = [pp EXCEPT !.pc = IF meta_szof < file_metadata_size THEN "pad" ELSE "end",
                        !.done = "meta_row"]
    /\ made' = <<>>
    /\ UNCHANGED <<df, idx, ds, ret, sessions>>

\* pad the row: one zero byte at its last position
PushPad ==
    /\ pp.pc = "pad"
    /\ LET off == compute_meta_file_header_size +
                      (pp.file_meta.uid - 1) * file_metadata_size
       IN mf' = [mf EXCEPT !.size = Max(@, off + file_metadata_size)]
    /\ pp' = [pp EXCEPT !.pc = "end", !.done = "padding"]
    /\ UNCHANGED <<df, idx, ds, ret, made, sessions>>

\* the closing checks of push_element and its return value
PushEnd ==
    /\ pp.pc = "end"
    /\ LET status == IF assert_meta_file_size(mf) # "ok" THEN assert_meta_file_size(mf)
                     ELSE IF pp.file_meta.uid > compute_num_elements(mf)
                          THEN "invalid_uid"
                     ELSE "ok"
       IN ret' = [Ret("push_element", status) EXCEPT
                     !.uid = pp.file_meta.uid, !.meta = pp.meta,
                     !.list = ret.list, !.hasdata = pp.pdata # 0,
                     !.data = IF pp.pdata # 0
                              THEN Buffer(pp.file_meta.size, pp.pdata) ELSE <<>>]
    /\ pp' = Idle
    /\ UNCHANGED <<mf, df, idx, ds, made, sessions>>

\* the process dies inside push_element: the object is gone, the files stay
Crash ==
    /\ pp.pc \notin {"idle"}
    /\ ds' = Closed
    /\ pp' = Idle
    /\ ret' = [Ret("push_element", "interrupted") EXCEPT !.at = pp.done]
    /\ UNCHANGED <<mf, df, idx, made, sessions>>

\* a slot offset that would take any slot number
slot_offset_unchecked(slot, num_slots, slot_size) ==
    [status |-> "ok", val |-> slot * slot_size]

\* compute_slot_offset
compute_slot_offset(slot, num_slots, slot_size) ==
    IF slot >= num_slots THEN [status |-> "invalid_slot", val |-> 0]
    ELSE [status |-> "ok", val |-> slot * slot_size]

\* a read that would hand out the row without comparing its uid
read_metadata_unchecked(m, obj, uid) ==
    IF assert_can_rwp(obj) # "ok"
    THEN [status |-> assert_can_rwp(obj), row |-> ZeroRow]
    ELSE IF ~uid_in_range(uid, obj.max_elements)
         THEN [status |-> "invalid_uid", row |-> ZeroRow]
    ELSE IF uid > Len(m.rows) THEN [status |-> "false", row |-> ZeroRow]
    ELSE [status |-> "true", row |-> m.rows[uid]]

\* read_metadata: "true" with the row, "false" past the end of the file
read_metadata(m, obj, uid) ==
    IF assert_can_rwp(obj) # "ok"
    THEN [status |-> assert_can_rwp(obj), row |-> ZeroRow]
    ELSE IF ~uid_in_range(uid, obj.max_elements)
         THEN [status |-> "invalid_uid", row |-> ZeroRow]
    ELSE IF uid > Len(m.rows) THEN [status |-> "false", row |-> ZeroRow]
    ELSE IF m.rows[uid].uid # uid
         THEN [status |-> "inconsistent_meta", row |-> m.rows[uid]]
    ELSE [status |-> "true", row |-> m.rows[uid]]

\* _dataset_fd_base::read with complete and required set
read_required(bytes, off, count) ==
    LET got == ReadAt(bytes, off, count)
    IN IF (Len(got) # 0 /\ Len(got) # count) \/ Len(got) = 0
       THEN [status |-> "incomplete_read", data |-> got]
       ELSE [status |-> "ok", data |-> got]

\* read_element(uid, meta, pdata, slot); withdata stands for pdata != 0
read_element(m, d, obj, uid, withdata, slot) ==
    LET rm == read_metadata(m, obj, uid)
        so == compute_slot_offset(slot, obj.num_slots, obj.slot_size)
        rd == read_required(d.bytes, rm.row.data_offset + so.val, rm.row.size)
        Thrown(status) == [Ret("read_element", status) EXCEPT
                              !.uid = uid, !.slot = slot, !.hasdata = withdata]
        out == [Thrown("true") EXCEPT !.meta = BaseOf(rm.row)]
    IN IF ~withdata
       THEN IF rm.status = "true" THEN out ELSE Thrown(rm.status)
       ELSE IF assert_has_data(obj) # "ok" THEN Thrown(assert_has_data(obj))
       ELSE IF rm.status # "true" THEN Thrown(rm.status)
       ELSE IF so.status # "ok" THEN Thrown(so.status)
       ELSE IF rd.status # "ok" THEN Thrown(rd.status)
       ELSE [out EXCEPT !.data = rd.data]

RECURSIVE read_elements(_, _, _, _)
\* read_elements(uidbegin, uidend, itmeta): n counts the elements read
\* before the first read_element that returns false
read_elements(m, obj, uids, n) ==
    IF uids = <<>> THEN [status |-> "ok", n |-> n]
    ELSE LET rm == read_metadata(m, obj, Head(uids))
         IN IF rm.status = "false" THEN [status |-> "ok", n |-> n]
            ELSE IF rm.status # "true" THEN [status |-> rm.status, n |-> n]
            ELSE read_elements(m, obj, Tail(uids), n + 1)

ReadElement(uid, withdata, slot) ==
    /\ ds.open
    /\ pp.pc = "idle"
    /\ ret' = read_element(mf, df, ds, uid, withdata, slot)
    /\ UNCHANGED <<mf, df, idx, ds, pp, made, sessions>>

\* write_element(meta, pdata, slot); pdata = 0 stands for the null pointer
write_element(m, d, obj, meta, pdata, slot) ==
    LET uid == meta.uid
        rm == read_metadata(m, obj, uid)
        so == compute_slot_offset(slot, obj.num_slots, obj.slot_size)
        newd == IF ~obj.no_data /\ pdata # 0
                THEN [d EXCEPT !.bytes = WriteAt(@, rm.row.data_offset + so.val,
                                                 Buffer(meta.size, pdata))]
                ELSE d
        off == compute_meta_file_header_size + (uid - 1) * file_metadata_size
        newm == [m EXCEPT !.size = Max(@, off + metadata_szof),
                          !.rows[uid] = [@ EXCEPT !.uid = meta.uid,
                                                  !.size = meta.size,
                                                  !.loc = meta.loc]]
        Thrown(status) == [status |-> status, mf |-> m, df |-> d]
    IN IF assert_can_rwp(obj) # "ok" THEN Thrown(assert_can_rwp(obj))
       ELSE IF uid > compute_num_elements(m) THEN Thrown("invalid_uid")
       ELSE IF pdata # 0 /\ assert_has_data(obj) # "ok"
            THEN Thrown(assert_has_data(obj))
       ELSE IF rm.status \notin {"true", "false"} THEN Thrown(rm.status)
       ELSE IF rm.row.uid # uid THEN Thrown("inconsistent_meta")
       ELSE IF ~obj.no_data /\ rm.row.size # meta.size
            THEN Thrown("invalid_data_size")
       ELSE IF ~obj.no_data /\ pdata # 0 /\ so.status # "ok" THEN Thrown(so.status)
       ELSE IF ~obj.can_write THEN Thrown("read_only")
       ELSE [status |-> "ok", mf |-> newm, df |-> newd]

RECURSIVE write_elements(_, _, _, _)
\* write_elements(metabegin, metaend): write_element(meta) for each
write_elements(m, d, obj, metas) ==
    IF metas = <<>> THEN [status |-> "ok", mf |-> m, df |-> d]
    ELSE LET r == write_element(m, d, obj, Head(metas), 0, 0)
         IN IF r.status # "ok" THEN r
            ELSE write_elements(r.mf, r.df, obj, Tail(metas))

WriteElement(meta, pdata, slot) ==
    /\ ds.open
    /\ pp.pc = "idle"
    /\ LET r == write_element(mf, df, ds, meta, pdata, slot)
       IN /\ mf' = r.mf
          /\ df' = r.df
          /\ made' = KeepMade(r.mf, r.df)
          /\ ret' = IF r.status # "ok" THEN Ret("write_element", r.status)
                    ELSE [Ret("write_element", "ok") EXCEPT
                             !.uid = meta.uid, !.slot = slot, !.meta = meta,
                             !.hasdata = pdata # 0,
                             !.data = IF pdata # 0 THEN Buffer(meta.size, pdata)
                                      ELSE <<>>]
    /\ UNCHANGED <<idx, ds, pp, sessions>>

\* get_element(uid, meta, data) and get_data(uid): the checks before the
\* addresses are handed out
get_element(obj, uid) ==
    FirstFailure(<<assert_is_mmapped(obj), assert_has_data(obj),
                   IF uid_in_range(uid, obj.max_elements) THEN "ok" ELSE "invalid_uid">>)

\* get_data(uid, slot)
get_data(obj, uid, slot) ==
    FirstFailure(<<assert_is_mmapped(obj), assert_has_data(obj),
                   IF uid_in_range(uid, obj.max_elements) THEN "ok" ELSE "invalid_uid",
                   compute_slot_offset(slot, obj.num_slots, obj.slot_size).status>>)

\* get_fd_w
get_fd_w(obj) ==
    IF ~obj.can_rwp THEN "mmapped_exception"
    ELSE IF ~obj.can_write THEN "read_only"
    ELSE "ok"

\* _dataset_fd_base::sync: msync of the mapped region, or fsync of the
\* descriptor get_fd_w returns
sync(obj) ==
    IF ~obj.can_rwp THEN [status |-> "ok", call |-> "msync"]
    ELSE IF get_fd_w(obj) # "ok" THEN [status |-> get_fd_w(obj), call |-> "none"]
    ELSE [status |-> "ok", call |-> "fsync"]

\* sync_metadata
sync_metadata(obj) == sync(obj)

\* sync_data: assert_has_data, then the sync of the data file
sync_data(obj) ==
    IF assert_has_data(obj) # "ok"
    THEN [status |-> assert_has_data(obj), call |-> "none"]
    ELSE sync(obj)

\* the bytes of (uid, slot) in the data file, as get_data and read_element
\* address them: data_offset of the row plus the offset of the slot
data_region(row, slot, slot_size) ==
    [beg |-> row.data_offset + slot * slot_size,
     end |-> row.data_offset + slot * slot_size + row.size]

\* get_metadata(uid) of a mapped dataset
get_metadata(m, obj, uid) ==
    IF assert_is_mmapped(obj) # "ok"
    THEN [Ret("get_metadata", assert_is_mmapped(obj)) EXCEPT !.uid = uid]
    ELSE IF ~uid_in_range(uid, obj.max_elements)
         THEN [Ret("get_metadata", "invalid_uid") EXCEPT !.uid = uid]
    ELSE [Ret("get_metadata", "ok") EXCEPT !.uid = uid, !.meta = BaseOf(m.rows[uid])]

GetMetadata(uid) ==
    /\ ds.open
    /\ pp.pc = "idle"
    /\ ret' = get_metadata(mf, ds, uid)
    /\ UNCHANGED <<mf, df, idx, ds, pp, made, sessions>>

\* begin_metadata() .. end_metadata(): the metadata in storage order
begin_metadata(m, obj) ==
    IF assert_has_location_data(obj) # "ok"
    THEN Ret("begin_metadata", assert_has_location_data(obj))
    ELSE [Ret("begin_metadata", "ok") EXCEPT
             !.list = [i \in 1..Len(obj.storage) |-> BaseOf(m.rows[obj.storage[i]])]]

\* begin_elements(slot) / end_elements(slot): the checks before the iterator
begin_elements(obj, slot) ==
    FirstFailure(<<assert_has_location_data(obj), assert_has_data(obj),
                   compute_slot_offset(slot, obj.num_slots, obj.slot_size).status>>)

\* query_elements(predicates, slot, ...) and find_element(point, slot), which
\* starts with that query: the checks before the adapter is asked
query_elements(obj, slot) ==
    FirstFailure(<<assert_has_location_data(obj), assert_has_data(obj),
                   compute_slot_offset(slot, obj.num_slots, obj.slot_size).status>>)

\* query_metadata(predicates, ...) and find_metadata(point)
query_metadata(obj) == assert_has_location_data(obj)

IterateMetadata ==
    /\ ds.open
    /\ pp.pc = "idle"
    /\ ret' = begin_metadata(mf, ds)
    /\ UNCHANGED <<mf, df, idx, ds, pp, made, sessions>>

\* the files a successful bulk create leaves once its object is destroyed
InitStored ==
    \E n \in 1..(MaxRows - 1), flags \in CreateFlags, num_slots \in 1..MaxSlots :
        \E metas \in Metas(n) :
            LET r == create_dataset(NoFile, NoData, NoIndex, flags, num_slots,
                                    metas, "rtree_disk_slim")
            IN /\ r.status = "ok"
               /\ mf = r.mf
               /\ df = r.df
               /\ idx = r.idx
               /\ ds = Closed
               /\ pp = Idle
               /\ ret = Ret("close", "ok")
               /\ made = metas
               /\ sessions = 0

\* building, reopening and reading
Next ==
    \/ \E mode \in OpenModes, flags \in OpenFlags, num_slots \in 0..(MaxSlots + 1) :
           \E adapter \in AdaptersFor(mode, flags), ub \in UbOutcomes(num_slots) :
               Open(mode, flags, num_slots, adapter, ub)
    \/ \E n \in 0..MaxRows, flags \in CreateFlags, num_slots \in 0..MaxSlots,
          adapter \in Adapters :
           \E metas \in Metas(n) : Create(flags, num_slots, metas, adapter)
    \/ Close
    \/ \E uid \in 1..MaxRows, withdata \in BOOLEAN, slot \in 0..(MaxSlots - 1) :
           ReadElement(uid, withdata, slot)
    \/ \E uid \in 0..MaxRows : GetMetadata(uid)
    \/ IterateMetadata

Spec == Init /\ [][Next]_vars

\* read/write/push sessions over new and bulk-created files, with a push
\* that can be cut short at any of its writes
NextPush ==
    \/ \E mode \in OpenModes, flags \in OpenFlags, num_slots \in 0..(MaxSlots + 1) :
           \E adapter \in AdaptersFor(mode, flags), ub \in UbOutcomes(num_slots) :
               Open(mode, flags, num_slots, adapter, ub)
    \/ Close
    \/ \E meta \in Elements({1}), pdata \in {0, 1} : PushBegin(meta, pdata)
    \/ PushExtend
    \/ PushData
    \/ PushMeta
    \/ PushPad
    \/ PushEnd
    \/ Crash

SpecPush == (Init \/ InitStored) /\ [][NextPush]_vars

\* writable read/write/push sessions that push, overwrite and read back
RwpFlags ==
    {S1O_FLAGS_RWP + S1O_FLAGS_ALLOW_UNSORTED, S1O_FLAGS_RWP + S1O_FLAGS_NO_DATA,
     S1O_FLAGS_RWP + S1O_FLAGS_ALLOW_UNSORTED + S1O_FLAGS_NO_DATA_CHECK}

NextWrite ==
    \/ \E mode \in {S1O_OPEN_WRITE, S1O_OPEN_WRITE + S1O_OPEN_TRUNC},
          flags \in RwpFlags, num_slots \in 0..MaxSlots :
           Open(mode, flags, num_slots, "rtree", "trap")
    \/ \E meta \in Elements({1}), pdata \in {0, 1} : PushBegin(meta, pdata)
    \/ PushExtend
    \/ PushData
    \/ PushMeta
    \/ PushPad
    \/ PushEnd
    \/ \E uid \in 1..MaxRows, withdata \in BOOLEAN :
           \E slot \in IF withdata THEN 0..(MaxSlots - 1) ELSE {0} :
               ReadElement(uid, withdata, slot)
    \/ \E meta \in Elements(1..MaxRows), pdata \in {0, 2} :
           \E slot \in IF pdata # 0 THEN 0..(MaxSlots - 1) ELSE {0} :
               WriteElement(meta, pdata, slot)

SpecWrite == (Init \/ InitStored) /\ [][NextWrite]_vars

(***************************************************************************)
(* Properties.                                                             *)
(***************************************************************************)
\* C1: the stored uids are always 1..N in file order, and a successful
\* push_element on a dataset of N rows returns N+1 and leaves those N rows
\* followed by exactly one new row, stored with uid N+1 and the size and
\* location of the supplied metadata, whatever uid that metadata carried.
C1_PushAppendsNextUid ==
    /\ \A i \in 1..Len(mf.rows) : mf.rows[i].uid = i
    /\ (ret.op = "push_element" /\ ret.status = "ok") =>
           /\ ret.uid = Len(ret.list) + 1
           /\ compute_num_elements(mf) = ret.uid
           /\ Stored(mf) = Append(ret.list, [uid |-> ret.uid, size |-> ret.meta.size,
                                             loc |-> ret.meta.loc])

\* a push in a second session, on a row pushed in the first, that returned 2
\* although the caller supplied uid 1
C1_Witness ==
    /\ ret.op = "push_element"
    /\ ret.status = "ok"
    /\ sessions = 2
    /\ ~HasBit(ds.mode, S1O_OPEN_TRUNC)
    /\ ~idx.exists
    /\ ret.uid = 2
    /\ ret.meta.uid = 1
    /\ Len(mf.rows) = 2

\* C7: while a push_element call is under way, the part of the pushed
\* element's row that is already in the meta file does not carry the clean mark.
C7_PartialRowNotClean ==
    (pp.pc # "idle" /\ pp.file_meta.uid <= Len(mf.rows)) =>
        mf.rows[pp.file_meta.uid].clean_bit # CLEAN_BIT_MAGIC

C6_InterruptedPushDetected ==
    [][(/\ ret.op = "push_element"
        /\ ret.status = "interrupted"
        /\ ret.at \in {"extension", "data", "meta_row"}
        /\ ret'.op = "open"
        /\ ret'.status = "ok")
       => \/ HasBit(ds'.flags, S1O_FLAGS_NO_DATA_CHECK)
          \/ HasBit(ds'.flags, S1O_FLAGS_NO_DATA)
          \/ HasBit(ds'.mode, S1O_OPEN_TRUNC)]_vars

\* the aligned sizes of the rows 1..n whose data lies below offset off
RECURSIVE AlignedBelow(_, _, _)
AlignedBelow(rows, n, off) ==
    IF n = 0 THEN 0
    ELSE AlignedBelow(rows, n - 1, off) +
         (IF rows[n].data_offset < off THEN align64(rows[n].size) ELSE 0)

\* the layout C9 names: sorted by offset the rows are gapless from 0 (each
\* offset is the sum of the aligned sizes below it, no two rows share one),
\* they end at slot_size, and slot_size * num_slots is the data-file size
LayoutConsistent(rows, n, num_slots, real_size) ==
    /\ \A i \in 1..n : rows[i].data_offset = AlignedBelow(rows, n, rows[i].data_offset)
    /\ \A i, j \in 1..n : i # j => rows[i].data_offset # rows[j].data_offset
    /\ num_slots >= 1
    /\ real_size % num_slots = 0
    /\ SumAligned(SubSeq(rows, 1, n)) = real_size \div num_slots

\* the files of a dataset with at least one row, with no object on them
ClosedWithRows ==
    /\ ~ds.open
    /\ pp.pc = "idle"
    /\ mf.exists
    /\ df.exists
    /\ compute_num_elements(mf) >= 1

\* the flags of OpenFlags that keep the integrity check
CheckedFlags ==
    {flags \in OpenFlags : ~HasBit(flags, S1O_FLAGS_NO_DATA_CHECK)
                            /\ ~HasBit(flags, S1O_FLAGS_NO_DATA)}

\* a successful checked open found the layout consistent
C9_SuccessMeansConsistent ==
    (/\ ret.op = "open"
     /\ ret.status = "ok"
     /\ ~HasBit(ds.mode, S1O_OPEN_TRUNC)
     /\ ds.flags \in CheckedFlags
     /\ compute_num_elements(mf) >= 1)
    => /\ LayoutConsistent(mf.rows, compute_num_elements(mf), ds.num_slots,
                           Len(df.bytes))
       /\ ds.slot_size * ds.num_slots = Len(df.bytes)

ReachesAdapter(flags, num_slots) ==
    /\ assert_meta_file_size(mf) = "ok"
    /\ IF HasBit(flags, S1O_FLAGS_NO_DATA)
       THEN num_slots = 0
       ELSE /\ num_slots >= 1
            /\ Len(df.bytes) > 0
            /\ Len(df.bytes) % num_slots = 0

\* the files of a dataset whose disk index holds fewer elements than the
\* meta file holds rows, with no object on them
ClosedWithOldIndex ==
    /\ ~ds.open
    /\ pp.pc = "idle"
    /\ mf.exists
    /\ df.exists
    /\ idx.exists
    /\ Len(idx.nodes) < compute_num_elements(mf)

\* C10 as stated: a mapped open with the disk adapter succeeds only on an
\* index that matches the metadata (its nodes are the locations and uids of
\* the rows), and once rows were pushed after the index was built every
\* mapped open with the disk adapter that passes the stages before the
\* adapter fails with inconsistent_index.
C10_StaleIndexNeverUsed ==
    /\ (/\ ret.op = "open"
        /\ ret.status = "ok"
        /\ ~ds.can_rwp
        /\ ds.adapter = "rtree_disk_slim")
       => idx.nodes = TreeNodes(mf.rows, compute_num_elements(mf))
    /\ ClosedWithOldIndex =>
          \A mode \in {0, S1O_OPEN_WRITE},
             flags \in {f \in OpenFlags : ~HasBit(f, S1O_FLAGS_RWP)},
             num_slots \in 0..(MaxSlots + 1) :
             \A ub \in UbOutcomes(num_slots) :
             ReachesAdapter(flags, num_slots) =>
                open_dataset(mf, df, idx, mode, flags, num_slots,
                             "rtree_disk_slim", ub).status = "inconsistent_index"

\* C10 amended: a mapped open with the disk adapter succeeds only on an
\* index with as many elements as the meta file has rows (the elements
\* themselves are not compared), and once rows were pushed after the index
\* was built no mapped open with the disk adapter succeeds: it fails with
\* inconsistent_index whenever it passes the stages before the adapter.
C10_IndexCountChecked ==
    /\ (/\ ret.op = "open"
        /\ ret.status = "ok"
        /\ ~ds.can_rwp
        /\ ds.adapter = "rtree_disk_slim")
       => /\ idx.exists
          /\ Len(idx.nodes) = compute_num_elements(mf)
    /\ ClosedWithOldIndex =>
          \A mode \in {0, S1O_OPEN_WRITE},
             flags \in {f \in OpenFlags : ~HasBit(f, S1O_FLAGS_RWP)},
             num_slots \in 0..(MaxSlots + 1) :
             \A ub \in UbOutcomes(num_slots) :
             LET status == open_dataset(mf, df, idx, mode, flags, num_slots,
                                        "rtree_disk_slim", ub).status
             IN /\ status # "ok"
                /\ ReachesAdapter(flags, num_slots) => status = "inconsistent_index"

\* a mapped open with the disk adapter that failed with inconsistent_index on
\* a created dataset with one row pushed after its index was built
C10_Witness ==
    /\ ret.op = "open"
    /\ ret.status = "inconsistent_index"
    /\ ClosedWithOldIndex
    /\ Len(idx.nodes) = 1
    /\ compute_num_elements(mf) = 2

\* the record of the created sequence that carries uid
OriginalOf(uid) == made[CHOOSE i \in 1..Len(made) : made[i].uid = uid]

\* C2: a bulk-created dataset that was closed and reopened returns, for every
\* uid in 1..N, the metadata of the original record with that uid: from
\* get_metadata and from the iteration of a mapped open (which returns the N
\* records in the adapter's order), and from read_element of an RWP open.
C2_CreateReopenRoundTrip ==
    (made # <<>> /\ ds.open /\ sessions >= 2) =>
        /\ (/\ ret.op = "read_element"
            /\ ds.can_rwp
            /\ ~ret.hasdata
            /\ ret.uid \in 1..Len(made))
           => /\ ret.status = "true"
              /\ ret.meta = OriginalOf(ret.uid)
        /\ (/\ ret.op = "get_metadata"
            /\ ~ds.can_rwp
            /\ ret.uid \in 1..Len(made))
           => /\ ret.status = "ok"
              /\ ret.meta = OriginalOf(ret.uid)
        /\ (ret.op = "begin_metadata" /\ ~ds.can_rwp)
           => /\ ret.status = "ok"
              /\ Len(ret.list) = Len(made)
              /\ \A i \in 1..Len(made) :
                    \E j \in 1..Len(ret.list) : ret.list[j] = made[i]

\* read_element of uid 2 on an RWP reopen of a dataset created from two
\* records handed over with uid 2 first
C2_Witness ==
    /\ Len(made) = 2
    /\ made[1].uid = 2
    /\ made[1] # [made[2] EXCEPT !.uid = 2]
    /\ ds.open
    /\ ds.can_rwp
    /\ sessions = 2
    /\ ret.op = "read_element"
    /\ ret.status = "true"
    /\ ret.uid = 2
    /\ ret.meta = made[1]

IsError(status) ==
    status \notin {"ok", "true", "false", "running", "interrupted", "SIGFPE"}

\* C5 as stated: a call of open, create, push_element or write_element that
\* returns an error leaves the meta file, the data file and the index
\* sidecar as they were before the call.
C5_ErrorLeavesFiles ==
    [][(ret'.op \in {"open", "create", "push_element", "write_element"}
        /\ IsError(ret'.status))
       => (mf' = mf /\ df' = df /\ idx' = idx)]_vars

\* C4 as stated: right after a successful write_element(m[, data, slot]),
\* read_element of the same uid returns true with metadata equal to m, and
\* when data was written and the same slot is read, the bytes written.
C4_WriteReadRoundTrip ==
    [][(/\ ret.op = "write_element"
        /\ ret.status = "ok"
        /\ ret'.op = "read_element"
        /\ ret'.uid = ret.uid
        /\ ret'.hasdata => (ret.hasdata /\ ret'.slot = ret.slot))
       => /\ ret'.status = "true"
          /\ ret'.meta = ret.meta
          /\ ret'.hasdata => ret'.data = ret.data]_vars

\* a constructor call in read/write/push mode: RWP flag, or a mode with TRUNC
RwpMode(mode, flags) == HasBit(flags, S1O_FLAGS_RWP) \/ HasBit(mode, S1O_OPEN_TRUNC)

\* C11 as stated: every dataset open in read/write/push mode carries the
\* ALLOW_UNSORTED flag, and an open in that mode without the flag fails
\* (with unsorted_data, once the files are open and the slot size is known).
C11_RwpNeedsAllowUnsortedFlag ==
    /\ (ds.open /\ ds.can_rwp) => HasBit(ds.flags, S1O_FLAGS_ALLOW_UNSORTED)
    /\ (~ds.open /\ pp.pc = "idle") =>
           \A mode \in OpenModes, flags \in OpenFlags, num_slots \in 0..(MaxSlots + 1) :
               \A ub \in UbOutcomes(num_slots) :
                   LET no_data == HasBit(flags, S1O_FLAGS_NO_DATA)
                       r == open_dataset(mf, df, idx, mode, flags, num_slots, "rtree", ub)
                       f == fd_base(mf, df, mode, no_data, FALSE, 0, 0)
                   IN (RwpMode(mode, flags) /\ ~HasBit(flags, S1O_FLAGS_ALLOW_UNSORTED))
                      => /\ r.status # "ok"
                         /\ (f.status = "ok" /\ (no_data \/
                                 compute_slot_size(f.df, num_slots, ub).status = "ok"))
                                => r.status = "unsorted_data"

\* C11: every dataset open in read/write/push mode carries ALLOW_UNSORTED or
\* NO_DATA (which stands for it); an open in that mode with neither flag
\* never succeeds, and it fails with unsorted_data whenever both files could
\* be opened and the slot size computed (it fails with the error of that
\* earlier stage otherwise).
C11_RwpNeedsUnsortedOrNoData ==
    /\ (ds.open /\ ds.can_rwp) =>
           /\ ds.allow_unsorted
           /\ HasBit(ds.flags, S1O_FLAGS_ALLOW_UNSORTED) \/ HasBit(ds.flags, S1O_FLAGS_NO_DATA)
    /\ (~ds.open /\ pp.pc = "idle") =>
           \A mode \in OpenModes, flags \in OpenFlags, num_slots \in 0..(MaxSlots + 1) :
               \A ub \in UbOutcomes(num_slots) :
                   LET r == open_dataset(mf, df, idx, mode, flags, num_slots, "rtree", ub)
                       f == fd_base(mf, df, mode, FALSE, FALSE, 0, 0)
                       ss == compute_slot_size(f.df, num_slots, ub)
                   IN (/\ RwpMode(mode, flags)
                       /\ ~HasBit(flags, S1O_FLAGS_ALLOW_UNSORTED)
                       /\ ~HasBit(flags, S1O_FLAGS_NO_DATA))
                      => /\ r.status # "ok"
                         /\ r.status \in {"unsorted_data", f.status, ss.status}
                         /\ (f.status = "ok" /\ ss.status = "ok")
                                => r.status = "unsorted_data"

\* an open of stored elements with the RWP flag alone was refused for it
C11_Witness ==
    /\ ret.op = "open"
    /\ ret.status = "unsorted_data"
    /\ Len(mf.rows) > 0
    /\ Len(df.bytes) > 0

\* C12: a dataset open in read/write/push mode has an empty spatial storage
\* in every state of its life, pushes included, and ordered iteration over
\* metadata or elements, queries and finds on it fail with
\* location_data_unavailable; opening in that mode maps nothing (it never
\* fails with empty_mmap, whatever the file sizes) and leaves the index
\* sidecar alone.
C12_RwpHasNoLocationData ==
    /\ (ds.open /\ ds.can_rwp) =>
           /\ ds.storage = <<>>
           /\ begin_metadata(mf, ds).status = "location_data_unavailable"
           /\ query_metadata(ds) = "location_data_unavailable"
           /\ \A slot \in 0..MaxSlots :
                  /\ begin_elements(ds, slot) = "location_data_unavailable"
                  /\ query_elements(ds, slot) = "location_data_unavailable"
    /\ (~ds.open /\ pp.pc = "idle") =>
           \A mode \in OpenModes, flags \in OpenFlags, num_slots \in 0..(MaxSlots + 1) :
               \A adapter \in Adapters, ub \in UbOutcomes(num_slots) :
                   LET r == open_dataset(mf, df, idx, mode, flags, num_slots, adapter, ub)
                   IN RwpMode(mode, flags) =>
                          /\ r.status # "empty_mmap"
                          /\ r.idx = idx
                          /\ r.ds.storage = <<>>

\* a read/write/push session over stored elements that has pushed one more
C12_Witness ==
    /\ ds.open
    /\ ds.can_rwp
    /\ ~HasBit(ds.mode, S1O_OPEN_TRUNC)
    /\ ret.op = "push_element"
    /\ ret.status = "ok"
    /\ Len(mf.rows) = 2
    /\ idx.exists

\* the ranges handed to the plural operations: up to MaxRows uids or records
UidRanges == UNION {[1..n -> 1..MaxRows] : n \in 0..MaxRows}
MetaRanges == UNION {[1..n -> Elements(1..MaxRows)] : n \in 0..MaxRows}

\* C13 as stated: on a read/write/push dataset get_element, get_metadata and
\* get_data fail with not_mmapped, and on a mapped dataset read_element,
\* write_element and push_element fail with mmapped, the files untouched.
C13_GatedEitherWay ==
    /\ (ds.open /\ ds.can_rwp) =>
           \A uid \in 0..MaxRows, slot \in 0..MaxSlots :
               /\ get_element(ds, uid) = "not_mmapped"
               /\ get_metadata(mf, ds, uid).status = "not_mmapped"
               /\ get_data(ds, uid, slot) = "not_mmapped"
    /\ (ds.open /\ ~ds.can_rwp) =>
           /\ \A uid \in 0..MaxRows, withdata \in BOOLEAN, slot \in 0..MaxSlots :
                  read_element(mf, df, ds, uid, withdata, slot).status = "mmapped_exception"
           /\ \A meta \in Elements(0..MaxRows), pdata \in {0, 2}, slot \in 0..MaxSlots :
                  /\ write_element(mf, df, ds, meta, pdata, slot)
                         = [status |-> "mmapped_exception", mf |-> mf, df |-> df]
                  /\ push_element_checks(ds, pdata) = "mmapped_exception"

\* C13: on a read/write/push dataset get_element, get_metadata and get_data
\* fail with not_mmapped; on a mapped dataset write_element and push_element
\* fail with mmapped and leave both files as they are, read_element fails
\* with mmapped unless it is given a data buffer on a dataset without data,
\* where it fails with no_data, and the plural forms fail with mmapped on
\* their first element (an empty range calls nothing and returns).
C13_AccessorsGatedByMode ==
    /\ (ds.open /\ ds.can_rwp) =>
           \A uid \in 0..MaxRows, slot \in 0..MaxSlots :
               /\ get_element(ds, uid) = "not_mmapped"
               /\ get_metadata(mf, ds, uid).status = "not_mmapped"
               /\ get_data(ds, uid, slot) = "not_mmapped"
    /\ (ds.open /\ ~ds.can_rwp) =>
           /\ \A uid \in 0..MaxRows, withdata \in BOOLEAN, slot \in 0..MaxSlots :
                  read_element(mf, df, ds, uid, withdata, slot).status =
                      IF withdata /\ ds.no_data THEN "no_data" ELSE "mmapped_exception"
           /\ \A meta \in Elements(0..MaxRows), pdata \in {0, 2}, slot \in 0..MaxSlots :
                  /\ write_element(mf, df, ds, meta, pdata, slot)
                         = [status |-> "mmapped_exception", mf |-> mf, df |-> df]
                  /\ push_element_checks(ds, pdata) = "mmapped_exception"
           /\ \A uids \in UidRanges :
                  read_elements(mf, ds, uids, 0) =
                      IF uids = <<>> THEN [status |-> "ok", n |-> 0]
                      ELSE [status |-> "mmapped_exception", n |-> 0]
           /\ \A metas \in MetaRanges :
                  /\ write_elements(mf, df, ds, metas) =
                         [status |-> IF metas = <<>> THEN "ok" ELSE "mmapped_exception",
                          mf |-> mf, df |-> df]
                  /\ push_elements_checks(ds, metas) =
                         IF metas = <<>> THEN "ok" ELSE "mmapped_exception"

\* a read_element of a stored element was refused on a mapped dataset
C13_Witness ==
    /\ ds.open
    /\ ~ds.can_rwp
    /\ ret.op = "read_element"
    /\ ret.status = "mmapped_exception"
    /\ ret.uid <= Len(mf.rows)
    /\ ~ds.no_data

\* the record sequences handed to a bulk create
CreateRanges == UNION {Metas(n) : n \in 0..MaxRows}

\* the data file is the same after every step of a dataset without data, and
\* after every constructor call with NO_DATA, successful or not
DataFileUntouched ==
    /\ (ds.open /\ ds.no_data) =>
           \A meta \in Elements(0..MaxRows), pdata \in {0, 2}, slot \in 0..MaxSlots :
               write_element(mf, df, ds, meta, pdata, slot).df = df
    /\ (~ds.open /\ pp.pc = "idle") =>
           /\ \A mode \in OpenModes, flags \in OpenFlags, num_slots \in 0..(MaxSlots + 1) :
                  \A adapter \in Adapters, ub \in UbOutcomes(num_slots) :
                      HasBit(flags, S1O_FLAGS_NO_DATA) =>
                          open_dataset(mf, df, idx, mode, flags, num_slots, adapter, ub).df = df
           /\ \A num_slots \in 0..MaxSlots, adapter \in Adapters, metas \in CreateRanges :
                  create_dataset(mf, df, idx, S1O_FLAGS_NO_DATA, num_slots, metas, adapter).df = df

\* C14 as stated: a dataset without data never changes the data file, and
\* get_element, get_data, element iteration, sync_data, and push_element,
\* write_element and read_element with a data pointer fail with no_data.
C14_NoDataAlwaysNoData ==
    /\ DataFileUntouched
    /\ (ds.open /\ ds.no_data) =>
           /\ sync_data(ds).status = "no_data"
           /\ push_element_checks(ds, 1) = "no_data"
           /\ \A uid \in 1..MaxRows, slot \in 0..MaxSlots :
                  /\ get_element(ds, uid) = "no_data"
                  /\ get_data(ds, uid, slot) = "no_data"
                  /\ begin_elements(ds, slot) = "no_data"
                  /\ read_element(mf, df, ds, uid, TRUE, slot).status = "no_data"
           /\ \A meta \in Elements(1..MaxRows), slot \in 0..MaxSlots :
                  write_element(mf, df, ds, meta, 2, slot).status = "no_data"

\* the error of an operation that needs data on a dataset without data:
\* no_data once the gate of its mode has let the call through
GateThenNoData(gate) == IF gate # "ok" THEN gate ELSE "no_data"

\* C14: a dataset opened or created with NO_DATA leaves the data file as it
\* is in every step of its life (constructor calls that fail included), and
\* every operation that needs data fails on it: sync_data and read_element
\* with a buffer with no_data, the others with no_data once the gate of
\* their mode has passed (get_element and get_data when mapped, element
\* iteration and queries when location data is available, push_element with
\* data in read/write/push mode, write_element with data in that mode for a
\* uid within the file), and with the error of that gate otherwise.
C14_NoDataNeverTouchesData ==
    /\ [][((ds.open /\ ds.no_data) \/ (ds'.open /\ ds'.no_data)) => df' = df]_vars
    /\ [](/\ DataFileUntouched
          /\ (ds.open /\ ds.no_data) =>
                 /\ sync_data(ds).status = "no_data"
                 /\ push_element_checks(ds, 1) = GateThenNoData(assert_can_rwp(ds))
                 /\ \A uid \in 1..MaxRows, slot \in 0..MaxSlots :
                        /\ get_element(ds, uid) = GateThenNoData(assert_is_mmapped(ds))
                        /\ get_data(ds, uid, slot) = GateThenNoData(assert_is_mmapped(ds))
                        /\ begin_elements(ds, slot) =
                               GateThenNoData(assert_has_location_data(ds))
                        /\ query_elements(ds, slot) =
                               GateThenNoData(assert_has_location_data(ds))
                        /\ read_element(mf, df, ds, uid, TRUE, slot).status = "no_data"
                 /\ \A meta \in Elements(1..MaxRows), slot \in 0..MaxSlots :
                        write_element(mf, df, ds, meta, 2, slot).status =
                            GateThenNoData(
                                IF assert_can_rwp(ds) # "ok" THEN assert_can_rwp(ds)
                                ELSE IF meta.uid > compute_num_elements(mf)
                                     THEN "invalid_uid" ELSE "ok"))

\* a session without data over a dataset that has a data file has pushed
C14_Witness ==
    /\ ds.open
    /\ ds.no_data
    /\ ret.op = "push_element"
    /\ ret.status = "ok"
    /\ Len(df.bytes) > 0

\* C15 as stated: a constructor call that gets its files and passes the
\* unsorted check is rejected with invalid_num_slots when it is an open or a
\* bulk create without NO_DATA and with num_slots = 0, and when it is an open
\* with NO_DATA and num_slots # 0.
C15_ZeroSlotsIffNoData ==
    (~ds.open /\ pp.pc = "idle") =>
        /\ \A mode \in OpenModes, flags \in OpenFlags, num_slots \in 0..(MaxSlots + 1) :
               \A adapter \in Adapters, ub \in UbOutcomes(num_slots) :
                   LET no_data == HasBit(flags, S1O_FLAGS_NO_DATA)
                       r == open_dataset(mf, df, idx, mode, flags, num_slots, adapter, ub)
                       f == fd_base(mf, df, mode, no_data, ~RwpMode(mode, flags), 0, 0)
                   IN (/\ f.status = "ok"
                       /\ RwpMode(mode, flags) =>
                              (HasBit(flags, S1O_FLAGS_ALLOW_UNSORTED) \/ no_data)
                       /\ no_data <=> (num_slots # 0))
                      => r.status = "invalid_num_slots"
        /\ \A adapter \in Adapters, metas \in CreateRanges :
               create_dataset(mf, df, idx, 0, 0, metas, adapter).status
                   = "invalid_num_slots"

\* C16 as stated: every new dataset with data that was created, by an open
\* with TRUNC or by a bulk create, has num_slots = 1.
C16_NewDatasetHasOneSlot ==
    (/\ ret.op \in {"open", "create"}
     /\ ret.status = "ok"
     /\ ds.open
     /\ HasBit(ds.mode, S1O_OPEN_TRUNC)
     /\ ~ds.no_data)
    => ds.num_slots = 1

\* C16: a new dataset with data made by the open constructor (a mode with
\* TRUNC) has num_slots = 1: such an open with another num_slots never
\* succeeds, and once it got its files and passed the unsorted check it is
\* rejected with invalid_num_slots (with num_slots = 0 only where the
\* division by zero of the slot size did not trap first); the bulk create
\* makes new datasets with data for every num_slots >= 1.
C16_NewOpenNeedsOneSlot ==
    /\ (ret.op = "open" /\ ret.status = "ok" /\ ds.open
        /\ HasBit(ds.mode, S1O_OPEN_TRUNC) /\ ~ds.no_data) => ds.num_slots = 1
    /\ (ret.op = "create" /\ ret.status = "ok" /\ ds.open /\ ~ds.no_data)
           => ds.num_slots >= 1
    /\ (~ds.open /\ pp.pc = "idle") =>
           /\ \A mode \in OpenModes, flags \in OpenFlags, num_slots \in 0..(MaxSlots + 1) :
                  \A adapter \in Adapters, ub \in UbOutcomes(num_slots) :
                      LET r == open_dataset(mf, df, idx, mode, flags, num_slots, adapter, ub)
                          f == fd_base(mf, df, mode, FALSE, FALSE, 0, 0)
                      IN (/\ HasBit(mode, S1O_OPEN_TRUNC)
                          /\ ~HasBit(flags, S1O_FLAGS_NO_DATA)
                          /\ num_slots # 1)
                         => /\ r.status # "ok"
                            /\ (f.status = "ok" /\ HasBit(flags, S1O_FLAGS_ALLOW_UNSORTED))
                                   => r.status = IF num_slots = 0 /\ ub = "trap"
                                                 THEN "SIGFPE" ELSE "invalid_num_slots"
           /\ \A num_slots \in 1..MaxSlots, adapter \in Adapters, metas \in CreateRanges :
                  metas # <<>> =>
                      create_dataset(mf, df, idx, 0, num_slots, metas, adapter).status
                          # "invalid_num_slots"

\* an open that made the two files was refused for its number of slots
C16_Witness ==
    /\ ret.op = "open"
    /\ ret.status = "invalid_num_slots"
    /\ sessions = 1
    /\ df.exists
    /\ mf.exists

\* C17 as stated: on a dataset open with more than one slot push_element is
\* refused with invalid_num_slots, and no step changes the meta file or
\* the data file.
C17_PushRefusedForSlots ==
    /\ [][(ds.open /\ ds.num_slots > 1) => (mf' = mf /\ df' = df)]_vars
    /\ []((ds.open /\ ds.num_slots > 1) =>
              \A pdata \in {0, 1} : push_element_checks(ds, pdata) = "invalid_num_slots")

\* C17: on a dataset open with more than one slot push_element always fails
\* before its first write, with invalid_num_slots in read/write/push mode
\* and with mmapped on a mapped dataset, so that no push is ever under way
\* and no step changes the meta file or the data file.
C17_PushRefusedOnMultiSlot ==
    /\ [][(ds.open /\ ds.num_slots > 1) => (mf' = mf /\ df' = df)]_vars
    /\ []((ds.open /\ ds.num_slots > 1) =>
              /\ pp.pc = "idle"
              /\ (ret.op = "push_element") =>
                     ret.status = IF ds.can_rwp THEN "invalid_num_slots"
                                  ELSE "mmapped_exception"
              /\ \A pdata \in {0, 1} :
                     push_element_checks(ds, pdata) =
                         IF ds.can_rwp THEN "invalid_num_slots"
                         ELSE "mmapped_exception")

\* a push on a read/write/push session over two slots of stored elements
C17_Witness ==
    /\ ds.open
    /\ ds.can_rwp
    /\ ds.num_slots = 2
    /\ ds.can_write
    /\ Len(mf.rows) >= 1
    /\ ret.op = "push_element"
    /\ ret.status = "invalid_num_slots"

\* what write_element may not change: the offset and clean mark of the row,
\* every other row, and the sizes of the two files
SameLayout(m, d, m2, d2, uid) ==
    /\ m2.size = m.size
    /\ Len(m2.rows) = Len(m.rows)
    /\ Len(d2.bytes) = Len(d.bytes)
    /\ d2.exists = d.exists
    /\ \A i \in 1..Len(m.rows) :
           IF i = uid
           THEN /\ m2.rows[i].data_offset = m.rows[i].data_offset
                /\ m2.rows[i].clean_bit = m.rows[i].clean_bit
           ELSE m2.rows[i] = m.rows[i]

\* C18 as stated, for the calls that reach the comparison (read/write/push
\* mode, a uid within the file, a data pointer only on a dataset with
\* data): a write_element whose data_size differs from the stored one fails
\* with invalid_data_size and writes nothing, and a successful one leaves
\* the layout as it was.
C18_WriteKeepsLayout ==
    (ds.open /\ ds.can_rwp /\ pp.pc = "idle") =>
        \A meta \in Elements(1..Len(mf.rows)), pdata \in {0, 2},
           slot \in 0..(MaxSlots - 1) :
            LET r == write_element(mf, df, ds, meta, pdata, slot)
            IN (pdata # 0 => ~ds.no_data) =>
                   /\ (meta.size # mf.rows[meta.uid].size) =>
                          r = [status |-> "invalid_data_size", mf |-> mf, df |-> df]
                   /\ (r.status = "ok") => SameLayout(mf, df, r.mf, r.df, meta.uid)

\* the uid ranges read in one call, some of them reaching past the last row
LongUidRanges == UNION {[1..n -> 1..(MaxRows + 1)] : n \in 0..(MaxRows + 1)}

\* the number of uids of a range before its first uid beyond the n rows
ReadBeforeEnd(uids, n) ==
    LET beyond == {i \in 1..Len(uids) : uids[i] > n}
    IN IF beyond = {} THEN Len(uids)
       ELSE (CHOOSE i \in beyond : \A j \in beyond : i <= j) - 1

\* the meta file with the row of uid overwritten to carry another uid
WithForeignUid(m, uid, other) == [m EXCEPT !.rows[uid].uid = other]

\* C19: on a read/write/push dataset with N rows read_element(uid) returns
\* true with the stored metadata, whose uid is uid, for every uid in 1..N,
\* and false for every uid beyond N; it fails with inconsistent_meta if the
\* row at that position carries another uid; read_elements returns the
\* number of uids before the first one beyond N.
C19_ReadElementByUid ==
    /\ (ret.op = "read_element" /\ ret.status = "true") => ret.meta.uid = ret.uid
    /\ (ds.open /\ ds.can_rwp /\ pp.pc = "idle") =>
           LET n == Len(mf.rows)
           IN /\ \A uid \in 1..(MaxRows + 1) :
                     LET r == read_element(mf, df, ds, uid, FALSE, 0)
                     IN IF uid <= n
                        THEN /\ r.status = "true"
                             /\ r.meta = BaseOf(mf.rows[uid])
                             /\ r.meta.uid = uid
                        ELSE r.status = "false"
              /\ \A uid \in 1..n, other \in 0..(MaxRows + 1) :
                     other # uid =>
                         read_element(WithForeignUid(mf, uid, other), df, ds, uid,
                                      FALSE, 0).status = "inconsistent_meta"
              /\ \A uids \in LongUidRanges :
                     read_elements(mf, ds, uids, 0) =
                         [status |-> "ok", n |-> ReadBeforeEnd(uids, n)]

\* a read past the last row of a dataset with rows returned false
C19_Witness ==
    /\ ds.open
    /\ ds.can_rwp
    /\ ret.op = "read_element"
    /\ ret.status = "false"
    /\ ret.uid = Len(mf.rows) + 1
    /\ Len(mf.rows) >= 1

\* the accesses of (uid, slot) on an open dataset with data: with a slot
\* beyond the last one the accessor of the dataset's mode fails with
\* invalid_slot and writes nothing; the regions of the pairs within the
\* slots lie inside the data file and are pairwise disjoint, a read returns
\* the bytes of the region, and a write to one pair leaves what is read from
\* every other pair.
SlotsIsolated ==
    LET k == ds.num_slots
        n == Len(mf.rows)
        Region(uid, slot) == data_region(mf.rows[uid], slot, ds.slot_size)
        Pairs == (1..n) \X (0..(k - 1))
    IN /\ \A uid \in 1..n, slot \in k..(MaxSlots + 1) :
              IF ds.can_rwp
              THEN /\ read_element(mf, df, ds, uid, TRUE, slot).status = "invalid_slot"
                   /\ write_element(mf, df, ds, BaseOf(mf.rows[uid]), 2, slot)
                          = [status |-> "invalid_slot", mf |-> mf, df |-> df]
              ELSE /\ get_data(ds, uid, slot) = "invalid_slot"
                   /\ ds.storage # <<>> => begin_elements(ds, slot) = "invalid_slot"
       /\ \A p \in Pairs :
              /\ Region(p[1], p[2]).end <= Len(df.bytes)
              /\ ~ds.can_rwp => get_data(ds, p[1], p[2]) = "ok"
              /\ (ds.can_rwp /\ mf.rows[p[1]].size > 0) =>
                     read_element(mf, df, ds, p[1], TRUE, p[2]).data =
                         SubSeq(df.bytes, Region(p[1], p[2]).beg + 1,
                                Region(p[1], p[2]).end)
       /\ \A p, q \in Pairs :
              p # q =>
                  /\ Region(p[1], p[2]).end <= Region(q[1], q[2]).beg
                     \/ Region(q[1], q[2]).end <= Region(p[1], p[2]).beg
                  /\ (ds.can_rwp /\ ds.can_write) =>
                         LET w == write_element(mf, df, ds, BaseOf(mf.rows[p[1]]), 2, p[2])
                         IN /\ w.status = "ok"
                            /\ read_element(w.mf, w.df, ds, q[1], TRUE, q[2])
                                   = read_element(mf, df, ds, q[1], TRUE, q[2])

\* C20 as stated: on every open dataset with data and k slots the accesses
\* with slot >= k fail with invalid_slot and the regions of the (uid, slot)
\* pairs with slot < k are disjoint and inside the data file.
C20_SlotRegionsDisjoint ==
    (ds.open /\ ~ds.no_data /\ pp.pc = "idle") => SlotsIsolated

\* C20: on every open dataset with data whose layout was laid out by the
\* bulk create or verified by the open (the integrity check not switched
\* off with NO_DATA_CHECK), the accesses with slot >= k fail with
\* invalid_slot and the regions of the (uid, slot) pairs with slot < k are
\* disjoint and inside the data file, so that a write to one pair never
\* changes what is read from another.
C20_CheckedSlotRegionsDisjoint ==
    (ds.open /\ ~ds.no_data /\ pp.pc = "idle"
     /\ ~HasBit(ds.flags, S1O_FLAGS_NO_DATA_CHECK)) => SlotsIsolated

\* a writable read/write/push session over two elements with data in two slots
C20_Witness ==
    /\ ds.open
    /\ ds.can_rwp
    /\ ds.can_write
    /\ ~ds.no_data
    /\ ~HasBit(ds.flags, S1O_FLAGS_NO_DATA_CHECK)
    /\ ds.num_slots = 2
    /\ Len(mf.rows) = 2
    /\ mf.rows[1].size > 0
    /\ mf.rows[2].size > 0

(***************************************************************************)
(* Opening a dataset whose stored header was altered.                      *)
(***************************************************************************)
\* the value a stored byte b is replaced with
TamperValue(b) == IF b = 0 THEN 255 ELSE 0

\* the meta file m as it is, or with one byte of its header replaced
Tampered(m) ==
    {m} \cup {[m EXCEPT !.base[p] = TamperValue(m.base[p])] :
                 p \in 1..Len(m.base)}
        \cup {[m EXCEPT !.check[p] = TamperValue(m.check[p])] :
                 p \in 1..Len(m.check)}

\* a stored dataset, as it is or with one byte of its header structure or
\* check block replaced
InitHeader ==
    \E n \in 1..(MaxRows - 1), flags \in CreateFlags, num_slots \in 1..MaxSlots :
        \E metas \in Metas(n) :
            LET r == create_dataset(NoFile, NoData, NoIndex, flags, num_slots,
                                    metas, "rtree_disk_slim")
            IN /\ r.status = "ok"
               /\ mf \in Tampered(r.mf)
               /\ df = r.df
               /\ idx = r.idx
               /\ ds = Closed
               /\ pp = Idle
               /\ ret = Ret("close", "ok")
               /\ made = metas
               /\ sessions = 0

\* reopening the stored files, mapped or through descriptors
NextHeader ==
    \/ \E mode \in {0, S1O_OPEN_WRITE}, flags \in OpenFlags,
          num_slots \in 1..MaxSlots :
           \E adapter \in AdaptersFor(mode, flags), ub \in UbOutcomes(num_slots) :
               Open(mode, flags, num_slots, adapter, ub)
    \/ Close

SpecHeader == InitHeader /\ [][NextHeader]_vars

\* the offsets at which the stored header differs from the expected one
TamperedBytes ==
    {p \in 0..(Len(mf.base) - 1) : mf.base[p + 1] # fill_base_data[p + 1]}
    \cup {meta_base_structure_size + p : p \in
             {q \in 0..(Len(mf.check) - 1) :
                 mf.check[q + 1] # fill_meta_check_data[q + 1]}}

\* the stored header differs from the expected one at offset p and nowhere else
TamperedAt(p) ==
    /\ mf.exists
    /\ Len(mf.base) = meta_base_structure_size
    /\ Len(mf.check) = meta_check_size
    /\ TamperedBytes = {p}

\* the meta file with its header as the library writes it
Untampered ==
    [mf EXCEPT !.base = fill_base_data, !.check = fill_meta_check_data]

\* C21: when one byte of the stored header structure or check block differs
\* from the expected one, every open that the unaltered files would accept
\* fails, mapped or through descriptors, with base_data_mismatch or
\* check_data_mismatch and reports the offset of that byte within its block
C21_HeaderMismatchReported ==
    \A p \in TamperedBytes :
        (~ds.open /\ TamperedAt(p)) =>
            \A mode \in {0, S1O_OPEN_WRITE}, flags \in OpenFlags,
               num_slots \in 1..MaxSlots :
                \A adapter \in AdaptersFor(mode, flags) :
                    open_dataset(Untampered, df, idx, mode, flags, num_slots,
                                 adapter, "trap").status = "ok" =>
                        LET r == open_dataset(mf, df, idx, mode, flags,
                                              num_slots, adapter, "trap")
                        IN /\ r.mf = mf
                           /\ IF p < meta_base_structure_size
                              THEN /\ r.status = "base_data_mismatch"
                                   /\ base_data_position(r.mf.base) = p
                              ELSE /\ r.status = "check_data_mismatch"
                                   /\ check_data_position(r.mf.check)
                                          = p - meta_base_structure_size

\* an open has just been refused for a byte of the check block, and the same
\* files are refused through descriptors for the same byte
C21_Witness ==
    /\ ret.op = "open"
    /\ ret.status = "check_data_mismatch"
    /\ TamperedAt(meta_base_structure_size + 3)
    /\ open_dataset(Untampered, df, idx, S1O_OPEN_WRITE,
                    S1O_FLAGS_RWP + S1O_FLAGS_ALLOW_UNSORTED, 1, "rtree",
                    "trap").status = "ok"
    /\ open_dataset(mf, df, idx, S1O_OPEN_WRITE,
                    S1O_FLAGS_RWP + S1O_FLAGS_ALLOW_UNSORTED, 1, "rtree",
                    "trap").status = "check_data_mismatch"
    /\ check_data_position(mf.check) = 3

(***************************************************************************)
(* rtree_disk / rtree_disk_slim :: create_new_tree, one loop iteration at  *)
(* a time.  Here idx carries the raw size of the sidecar, pp the call in   *)
(* flight with the adapter's storage st, ret what the call threw.          *)
(***************************************************************************)
MaxStartingSize == 3
MaxIncrement == 2
MaxResizeAttempts == 3
MaxTreeBytes == 6

\* a loop that would keep the starting size at every attempt
rfile_size_fixed(starting_rfile_size, rfile_increment, attempt) ==
    starting_rfile_size

\* file_size = _starting_rfile_size + attempt * _rfile_increment
rfile_size(starting_rfile_size, rfile_increment, attempt) ==
    starting_rfile_size + attempt * rfile_increment

\* a loop that would give up at the first allocation failure
give_up_at_once(attempt, resize_attempts) == TRUE

\* if (attempt == _resize_attempts) throw index_size_too_big
give_up(attempt, resize_attempts) == attempt = resize_attempts

\* construct<rtree_store>: boost::interprocess::bad_alloc when the segment
\* of file_size bytes cannot hold the tree_bytes the bulk load allocates
bad_alloc(tree_bytes, file_size) == file_size < tree_bytes

\* st after its pointers were deleted and zeroed
EmptyStorage(info) == [mfile |-> 0, alloc |-> FALSE, rtree |-> FALSE, info |-> info]

NoInfo == [rfile_size_bytes |-> 0, rfile_attempts |-> 0, rtree_size_bytes |-> 0]

\* the adapter's parameters, the nodes handed to the bulk load and the bytes
\* their tree takes
InitIndex ==
    \E starting_rfile_size \in 1..MaxStartingSize, rfile_increment \in 0..MaxIncrement,
       resize_attempts \in 0..MaxResizeAttempts, tree_bytes \in 1..MaxTreeBytes,
       old \in BOOLEAN :
        /\ mf = NoFile
        /\ df = NoData
        /\ idx = [exists |-> old, size |-> IF old THEN 1 ELSE 0, nodes |-> <<>>]
        /\ ds = Closed
        /\ pp = [pc |-> "loop", attempt |-> 0,
                 starting_rfile_size |-> starting_rfile_size,
                 rfile_increment |-> rfile_increment,
                 resize_attempts |-> resize_attempts,
                 tree_bytes |-> tree_bytes,
                 st |-> EmptyStorage(NoInfo), tried |-> <<>>]
        /\ ret = [op |-> "create_new_tree", status |-> "running",
                  maximum_attempts |-> 0, maximum_size |-> 0]
        /\ made = <<>>
        /\ sessions = 0

\* one iteration whose construct succeeds: the file is recreated with
\* file_size bytes, the tree is built in it, and the loop is left
TreeAttemptBuilds ==
    LET file_size == rfile_size(pp.starting_rfile_size, pp.rfile_increment,
                                pp.attempt)
        info == [pp.st.info EXCEPT !.rfile_size_bytes = file_size,
                                   !.rfile_attempts = pp.attempt + 1]
    IN /\ pp.pc = "loop"
       /\ pp.attempt <= pp.resize_attempts
       /\ ~bad_alloc(pp.tree_bytes, file_size)
       /\ idx' = [exists |-> TRUE, size |-> file_size, nodes |-> <<1>>]
       /\ pp' = [pp EXCEPT !.pc = "built",
                           !.st = [mfile |-> file_size, alloc |-> TRUE,
                                   rtree |-> TRUE, info |-> info],
                           !.tried = Append(@, file_size)]
       /\ UNCHANGED <<mf, df, ds, ret, made, sessions>>

\* one iteration whose construct throws bad_alloc: the file is recreated,
\* the allocator and the mapping are deleted and zeroed, and the loop goes
\* on or gives up
TreeAttemptFails ==
    LET file_size == rfile_size(pp.starting_rfile_size, pp.rfile_increment,
                                pp.attempt)
        info == [pp.st.info EXCEPT !.rfile_size_bytes = file_size,
                                   !.rfile_attempts = pp.attempt + 1]
    IN /\ pp.pc = "loop"
       /\ pp.attempt <= pp.resize_attempts
       /\ bad_alloc(pp.tree_bytes, file_size)
       /\ idx' = [exists |-> TRUE, size |-> file_size, nodes |-> <<>>]
       /\ IF give_up(pp.attempt, pp.resize_attempts)
          THEN /\ pp' = [pp EXCEPT !.pc = "thrown", !.st = EmptyStorage(info),
                                   !.tried = Append(@, file_size)]
               /\ ret' = [ret EXCEPT !.status = "index_size_too_big",
                                     !.maximum_attempts = pp.attempt,
                                     !.maximum_size = file_size]
          ELSE /\ pp' = [pp EXCEPT !.attempt = @ + 1, !.st = EmptyStorage(info),
                                   !.tried = Append(@, file_size)]
               /\ UNCHANGED ret
       /\ UNCHANGED <<mf, df, ds, made, sessions>>

\* after the loop: rtree_size_bytes = get_size() - get_free_memory()
TreeBuilt ==
    /\ pp.pc = "built"
    /\ pp' = [pp EXCEPT !.pc = "done",
                        !.st.info.rtree_size_bytes = pp.tree_bytes]
    /\ ret' = [ret EXCEPT !.status = "ok"]
    /\ UNCHANGED <<mf, df, idx, ds, made, sessions>>

NextIndex == TreeAttemptBuilds \/ TreeAttemptFails \/ TreeBuilt

SpecIndex == InitIndex /\ [][NextIndex]_vars

\* the sizes of attempts 0..k-1, in that order
SizesUpTo(k) ==
    [a \in 1..k |-> pp.starting_rfile_size + (a - 1) * pp.rfile_increment]

\* C22: when the bulk load of the index fails with an allocation failure at
\* every attempt 0..resize_attempts, create_new_tree throws
\* index_size_too_big with the last size tried, starting_rfile_size +
\* resize_attempts * rfile_increment, and the storage holds no mapped file,
\* no allocator and no tree
C22_GivesUpWithLastSize ==
    (/\ pp.pc \in {"thrown", "done"}
     /\ \A a \in 0..pp.resize_attempts :
            bad_alloc(pp.tree_bytes,
                      pp.starting_rfile_size + a * pp.rfile_increment))
    => /\ pp.pc = "thrown"
       /\ ret.status = "index_size_too_big"
       /\ ret.maximum_size =
              pp.starting_rfile_size + pp.resize_attempts * pp.rfile_increment
       /\ ret.maximum_attempts = pp.resize_attempts
       /\ pp.tried = SizesUpTo(pp.resize_attempts + 1)
       /\ pp.st.mfile = 0 /\ ~pp.st.alloc /\ ~pp.st.rtree

\* three attempts were made and the call gave up
C22_Witness ==
    /\ pp.pc = "thrown"
    /\ pp.resize_attempts = 2
    /\ pp.rfile_increment = 1
    /\ Len(pp.tried) = 3
    /\ ret.status = "index_size_too_big"
    /\ ret.maximum_size = pp.starting_rfile_size + 2
    /\ pp.st = EmptyStorage(pp.st.info)

\* C26: the sizes tried are starting_rfile_size + attempt * rfile_increment
\* for attempt 0, 1, 2, ... in that order, the file having the size of the
\* latest attempt; no more than resize_attempts + 1 attempts are made; the
\* loop stops at the first size that holds the tree, and then the storage
\* records the number of attempts made and that size
C26_SizesTriedInOrder ==
    /\ pp.tried = SizesUpTo(Len(pp.tried))
    /\ Len(pp.tried) <= pp.resize_attempts + 1
    /\ pp.tried # <<>> => idx.exists /\ idx.size = pp.tried[Len(pp.tried)]
    /\ pp.pc \in {"built", "done"} =>
           /\ \A a \in 1..(Len(pp.tried) - 1) :
                  bad_alloc(pp.tree_bytes, pp.tried[a])
           /\ ~bad_alloc(pp.tree_bytes, pp.tried[Len(pp.tried)])
           /\ pp.st.info.rfile_attempts = Len(pp.tried)
           /\ pp.st.info.rfile_size_bytes = pp.tried[Len(pp.tried)]
           /\ pp.st.mfile = idx.size /\ pp.st.alloc /\ pp.st.rtree
           /\ (pp.st.info.rfile_attempts > 1
                  <=> bad_alloc(pp.tree_bytes, pp.starting_rfile_size))
    /\ pp.pc = "loop" =>
           /\ Len(pp.tried) = pp.attempt
           /\ \A a \in 1..Len(pp.tried) : bad_alloc(pp.tree_bytes, pp.tried[a])

\* the third size was the first to hold the tree
C26_Witness ==
    /\ pp.pc = "done"
    /\ ret.status = "ok"
    /\ pp.st.info.rfile_attempts = 3
    /\ pp.rfile_increment = 2
    /\ pp.st.info.rfile_size_bytes = pp.starting_rfile_size + 4
    /\ idx.size = pp.starting_rfile_size + 4

(***************************************************************************)
(* Descriptors and mappings held when a constructor throws.                *)
(***************************************************************************)
\* what the initializers of _dataset_fd_base have acquired, in their order
\* _fd_meta, _fd_data, _m_meta, _m_data, when the constructor returns or
\* throws
fd_base_acquired(m, d, mode, no_data, map_fds, new_meta_size, new_data_size) ==
    LET can_write == HasBit(mode, S1O_OPEN_WRITE)
        new_file == HasBit(mode, S1O_OPEN_TRUNC)
        om == open_meta_file(m, can_write, new_file, new_meta_size)
        od == IF no_data THEN [status |-> "ok", f |-> d]
              ELSE open_data_file(d, can_write, new_file, new_data_size)
        fds == IF no_data THEN {"fd_meta"} ELSE {"fd_meta", "fd_data"}
    IN IF om.status # "ok" THEN {}
       ELSE IF od.status # "ok" THEN {"fd_meta"}
       ELSE IF ~map_fds THEN fds
       ELSE IF map_fd(om.f.size) # "ok" THEN fds
       ELSE IF ~no_data /\ map_fd(Len(od.f.bytes)) # "ok"
            THEN fds \cup {"m_meta"}
       ELSE IF no_data THEN fds \cup {"m_meta"}
       ELSE fds \cup {"m_meta", "m_data"}

\* ~_dataset_fd_base unmaps and closes; it runs for a constructed object
\* only, and the descriptors and regions are plain members: what a throwing
\* constructor acquired stays open
fd_base_leaked(m, d, mode, no_data, map_fds, new_meta_size, new_data_size) ==
    IF fd_base(m, d, mode, no_data, map_fds, new_meta_size, new_data_size).status
           # "ok"
    THEN fd_base_acquired(m, d, mode, no_data, map_fds, new_meta_size,
                          new_data_size)
    ELSE {}

\* the open constructor: _fds is its only member that holds descriptors or
\* mappings; once built it is destroyed when a later step throws, as is the
\* spatial storage
open_leaked(m, d, mode, flags) ==
    fd_base_leaked(m, d, mode, HasBit(flags, S1O_FLAGS_NO_DATA),
                   ~(HasBit(flags, S1O_FLAGS_RWP) \/ HasBit(mode, S1O_OPEN_TRUNC)),
                   0, 0)

\* the bulk create constructor
create_leaked(m, d, flags, num_slots, metas) ==
    fd_base_leaked(m, d, S1O_OPEN_WRITE + S1O_OPEN_TRUNC,
                   HasBit(flags, S1O_FLAGS_NO_DATA), TRUE,
                   compute_meta_file_size(Len(metas)),
                   compute_data_file_size(metas, num_slots))

\* C23: when the construction of a dataset (open or bulk create) fails,
\* every descriptor opened and every mapping created by it has been
\* released when the error reaches the caller
C23_FailedConstructionReleasesAll ==
    ~ds.open =>
        /\ \A mode \in OpenModes, flags \in OpenFlags :
               open_leaked(mf, df, mode, flags) = {}
        /\ \A n \in 0..MaxRows, flags \in CreateFlags, num_slots \in 1..MaxSlots :
               \A metas \in Metas(n) :
                   create_leaked(mf, df, flags, num_slots, metas) = {}

(***************************************************************************)
(* sync_metadata and sync_data.                                            *)
(***************************************************************************)
\* the flush the dataset's mode calls for
Flushed(obj) ==
    [status |-> "ok", call |-> IF obj.can_rwp THEN "fsync" ELSE "msync"]

\* C24 as stated: on every open dataset sync_metadata flushes the meta file,
\* and on every open dataset with data sync_data flushes the data file, with
\* msync when mapped and fsync otherwise, whatever the open mode
C24_SyncFlushesInEveryMode ==
    ds.open =>
        /\ sync_metadata(ds) = Flushed(ds)
        /\ ~ds.no_data => sync_data(ds) = Flushed(ds)

(***************************************************************************)
(* find_metadata and find_element.                                         *)
(***************************************************************************)
MaxPoint == 3

\* the distance the nearest query orders the nodes by
comparable_distance(a, b) == IF a < b THEN b - a ELSE a - b

\* queries::nearest(point, 1) on a tree that is not empty: the uids of the
\* nodes no other node is closer than; the tree returns one of them
nearest(rows, storage, point) ==
    {u \in {storage[i] : i \in 1..Len(storage)} :
        \A i \in 1..Len(storage) :
            comparable_distance(rows[u].loc, point)
                <= comparable_distance(rows[storage[i]].loc, point)}

\* a find that would return the nearest element wherever it is
find_nearest(rows, results, point) ==
    IF results = <<>> THEN [status |-> "empty_query", uid |-> 0]
    ELSE [status |-> "ok", uid |-> results[1]]

\* find_metadata / find_element after the query: exactly one result, located
\* at point
find_checked(rows, results, point) ==
    IF results = <<>> THEN [status |-> "empty_query", uid |-> 0]
    ELSE IF Len(results) > 1 THEN [status |-> "multiple_results", uid |-> 0]
    ELSE IF rows[results[1]].loc # point
         THEN [status |-> "location_mismatch", uid |-> 0]
    ELSE [status |-> "ok", uid |-> results[1]]

\* find_metadata(point): what it returns or throws, for each node the tree
\* may give as the nearest
find_metadata(m, obj, point) ==
    IF query_metadata(obj) # "ok" THEN {[status |-> query_metadata(obj), uid |-> 0]}
    ELSE {find_checked(m.rows, <<u>>, point) : u \in nearest(m.rows, obj.storage, point)}

\* find_element(point, slot)
find_element(m, obj, point, slot) ==
    IF query_elements(obj, slot) # "ok"
    THEN {[status |-> query_elements(obj, slot), uid |-> 0]}
    ELSE {find_checked(m.rows, <<u>>, point) : u \in nearest(m.rows, obj.storage, point)}

\* some element of the dataset is located at point
LocatedAt(point) == \E i \in 1..ds.max_elements : mf.rows[i].loc = point

\* what the claim lets a find return or throw once its query was made
FoundAt(r, point) ==
    IF LocatedAt(point)
    THEN r.status = "ok" /\ mf.rows[r.uid].loc = point
    ELSE r.status = "location_mismatch"

\* C25: find_metadata and find_element at a point return an element only if
\* it is located at the point.  On a dataset that can be queried, they
\* return an element located at the point when there is one, and fail with
\* location_mismatch when the nearest element is elsewhere; a query result
\* that is empty gives empty_query and one of more than one element
\* multiple_results.
C25_FindReturnsExactLocation ==
    (ds.open /\ ~ds.can_rwp) =>
        \A point \in 0..MaxPoint :
            /\ \A r \in find_metadata(mf, ds, point) :
                   /\ r.status = "ok" => mf.rows[r.uid].loc = point
                   /\ query_metadata(ds) = "ok" => FoundAt(r, point)
            /\ \A slot \in 0..(MaxSlots - 1) :
                   \A r \in find_element(mf, ds, point, slot) :
                       /\ r.status = "ok" => mf.rows[r.uid].loc = point
                       /\ query_elements(ds, slot) = "ok" => FoundAt(r, point)
            /\ find_checked(mf.rows, <<>>, point).status = "empty_query"
            /\ \A u, v \in 1..ds.max_elements :
                   find_checked(mf.rows, <<u, v>>, point).status = "multiple_results"

\* two elements at different places: the find at the place of one returns
\* it, the find next to the other is refused
C25_Witness ==
    /\ ds.open
    /\ ~ds.can_rwp
    /\ ~ds.no_data
    /\ ds.max_elements = 2
    /\ mf.rows[1].loc # mf.rows[2].loc
    /\ find_element(mf, ds, mf.rows[2].loc, 0) = {[status |-> "ok", uid |-> 2]}
    /\ find_metadata(mf, ds, 0) = {[status |-> "location_mismatch", uid |-> 0]}
    /\ find_metadata(mf, ds, 3) = {[status |-> "location_mismatch", uid |-> 0]}

\* C27: after a successful bulk create every row of the dataset carries the
\* clean mark, with data and with NO_DATA alike.
C27_BulkCreateMarksRowsClean ==
    (ret.op = "create" /\ ret.status = "ok") =>
        \A i \in 1..ds.max_elements : mf.rows[i].clean_bit = CLEAN_BIT_MAGIC

(***************************************************************************)
(* The sizes of the files a bulk create makes.                             *)
(***************************************************************************)
\* a size rounded up to a multiple of 64
round_up64(size) == ((size + 63) \div 64) * 64

RECURSIVE RoundedDataBytes(_)
\* the data of the records, each rounded up to a multiple of 64
RoundedDataBytes(metas) ==
    IF metas = <<>> THEN 0
    ELSE round_up64(Head(metas).size) + RoundedDataBytes(Tail(metas))

RECURSIVE PaddedDataBytes(_)
\* the same, where a record without data takes 64 bytes
PaddedDataBytes(metas) ==
    IF metas = <<>> THEN 0
    ELSE (IF Head(metas).size = 0 THEN 64 ELSE round_up64(Head(metas).size))
             + PaddedDataBytes(Tail(metas))

\* the bulk creates of an empty sequence, from the files as they are
CreatesOfNothing ==
    {create_dataset(mf, df, idx, flags, num_slots, <<>>, adapter) :
        flags \in CreateFlags, num_slots \in 0..MaxSlots, adapter \in Adapters}

\* C28 (as stated): bulk create sizes the meta file header_size + N *
\* row_size and the data file (sum of the data sizes rounded up to a
\* multiple of 64) * num_slots, for every N >= 0.
C28_PresizedForEveryN ==
    /\ (ret.op = "create" /\ ret.status = "ok") =>
           /\ mf.size = compute_meta_file_header_size + Len(made) * file_metadata_size
           /\ df.exists
           /\ Len(df.bytes) = RoundedDataBytes(made) * ds.num_slots
    /\ (~ds.open /\ sessions = 0) =>
           \A r \in CreatesOfNothing :
               r.mf.exists /\ r.mf.size = compute_meta_file_header_size

\* C28 (amended): a successful bulk create has N >= 1 records, a meta file
\* of header_size + N * row_size bytes and, unless it was made with NO_DATA
\* (then there is no data file), a data file of (sum of the aligned data
\* sizes) * num_slots bytes, where a record without data takes 64 bytes and
\* any other size is rounded up to a multiple of 64.  For N = 0 the meta
\* file is made with 0 bytes and the create fails.
C28_PresizedForNonEmpty ==
    /\ (ret.op = "create" /\ ret.status = "ok") =>
           /\ Len(made) >= 1
           /\ mf.exists
           /\ mf.size = compute_meta_file_header_size + Len(made) * file_metadata_size
           /\ Len(mf.rows) = Len(made)
           /\ IF ds.no_data THEN ~df.exists
              ELSE /\ df.exists
                   /\ Len(df.bytes) = PaddedDataBytes(made) * ds.num_slots
    /\ (~ds.open /\ sessions = 0) =>
           \A r \in CreatesOfNothing :
               /\ r.status = "empty_mmap"
               /\ r.mf.exists
               /\ r.mf.size = 0

\* two slots of a record of 65 bytes and a record without data
C28_Witness ==
    /\ ret.op = "create"
    /\ ret.status = "ok"
    /\ Len(made) = 2
    /\ \E i \in 1..2 : made[i].size = 0
    /\ \E i \in 1..2 : made[i].size = 65
    /\ ds.num_slots = 2
    /\ mf.size = 256
    /\ Len(df.bytes) = 384

(***************************************************************************)
(* The uids of a bulk-created dataset.                                     *)
(***************************************************************************)
\* the sequences of n records whatever their uids: repeated, 0 or beyond n
AnyMetas(n) == [1..n -> Elements(0..(n + 1))]

\* C29: a successful bulk create from any sequence of N records leaves uid i
\* in row i, for every i in 1..N.
C29_BulkCreateStoresDenseUids ==
    (~ds.open /\ sessions = 0) =>
        \A n \in 0..MaxRows :
            \A metas \in AnyMetas(n) :
                \A flags \in CreateFlags, num_slots \in 0..MaxSlots, adapter \in Adapters :
                    LET r == create_dataset(mf, df, idx, flags, num_slots, metas, adapter)
                    IN r.status = "ok" =>
                           /\ Len(r.mf.rows) = n
                           /\ \A i \in 1..n : r.mf.rows[i].uid = i

(***************************************************************************)
(* The clean bit operations.                                               *)
(***************************************************************************)
\* what the dereference of an address made from a null base can do: it is
\* undefined, the process is stopped by the fault or touches unrelated
\* memory and goes on
NullAccessOutcomes == {"SIGSEGV", "wild_access"}

\* the values a read of unrelated memory can give
WildValues == {0, CLEAN_BIT_MAGIC, DIRTY_BIT_MAGIC}

\* get_element_address(uid): _meta_file_elem_beg_ptr + get_element_offset(uid);
\* the base is 0 in a read/write/push dataset, and no mode is asserted
get_element_address(obj, uid) ==
    IF ~uid_in_range(uid, obj.max_elements)
    THEN [status |-> "invalid_uid", base |-> "none", uid |-> uid]
    ELSE [status |-> "ok", base |-> IF obj.can_rwp THEN "null" ELSE "mapped",
          uid |-> uid]

\* get_element_clean_bit(uid): elem->clean_bit
get_element_clean_bit(m, obj, uid) ==
    LET elem == get_element_address(obj, uid)
    IN IF elem.status # "ok" THEN {[status |-> elem.status, value |-> 0]}
       ELSE IF elem.base = "null"
            THEN {[status |-> s, value |-> v] :
                     s \in NullAccessOutcomes, v \in WildValues}
       ELSE {[status |-> "ok", value |-> m.rows[uid].clean_bit]}

\* set_element_clean_bit(uid, value): elem->clean_bit = value
set_element_clean_bit(m, obj, uid, value) ==
    LET elem == get_element_address(obj, uid)
    IN IF elem.status # "ok" THEN {[status |-> elem.status, mf |-> m]}
       ELSE IF elem.base = "null"
            THEN {[status |-> s, mf |-> m] : s \in NullAccessOutcomes}
       ELSE {[status |-> "ok",
              mf |-> [m EXCEPT !.rows[uid].clean_bit = value]]}

\* set_element_clean(uid) and set_element_dirty(uid)
set_element_clean(m, obj, uid) == set_element_clean_bit(m, obj, uid, CLEAN_BIT_MAGIC)
set_element_dirty(m, obj, uid) == set_element_clean_bit(m, obj, uid, DIRTY_BIT_MAGIC)

\* is_element_clean(uid), is_element_dirty(uid), is_element_corrupt(uid)
is_element_clean(m, obj, uid) ==
    {[status |-> r.status, value |-> r.value = CLEAN_BIT_MAGIC] :
        r \in get_element_clean_bit(m, obj, uid)}
is_element_dirty(m, obj, uid) ==
    {[status |-> r.status, value |-> r.value = DIRTY_BIT_MAGIC] :
        r \in get_element_clean_bit(m, obj, uid)}
is_element_corrupt(m, obj, uid) ==
    {[status |-> r.status,
      value |-> r.value # CLEAN_BIT_MAGIC /\ r.value # DIRTY_BIT_MAGIC] :
        r \in get_element_clean_bit(m, obj, uid)}

\* get_clean_uids, get_dirty_uids, get_corrupt_uids: for (euid = 1; euid <=
\* _max_elements; euid++).  The first access decides: without elements the
\* scan ends at once; a fault stops it at euid 1; otherwise it goes on up to
\* _max_elements, which a read/write/push dataset holds as unlimited
get_uids_scan(m, obj) ==
    IF obj.max_elements = 0 THEN {[status |-> "ok", last |-> 0]}
    ELSE {[status |-> r.status,
           last |-> IF r.status = "SIGSEGV" THEN 1 ELSE obj.max_elements] :
             r \in get_element_clean_bit(m, obj, 1)}

\* the statuses of the clean bit operations on uid
CleanBitStatuses(m, obj, uid) ==
    {r.status : r \in set_element_clean(m, obj, uid)}
        \cup {r.status : r \in set_element_dirty(m, obj, uid)}
        \cup {r.status : r \in is_element_clean(m, obj, uid)}
        \cup {r.status : r \in is_element_dirty(m, obj, uid)}
        \cup {r.status : r \in is_element_corrupt(m, obj, uid)}

\* C30: on a read/write/push dataset no clean bit operation goes through the
\* null mapped base: set_element_clean/dirty, is_element_clean/dirty/corrupt
\* and the get_*_uids scans end with an error, not with a memory access, and
\* the scans end within the rows of the dataset.
C30_RwpCleanBitOpsRefused ==
    (ds.open /\ ds.can_rwp) =>
        /\ \A uid \in 0..(MaxRows + 1) :
               \A s \in CleanBitStatuses(mf, ds, uid) :
                   s \notin NullAccessOutcomes /\ s # "ok"
        /\ \A r \in get_uids_scan(mf, ds) :
               /\ r.status \notin NullAccessOutcomes
               /\ r.status # "ok"
               /\ r.last <= Len(mf.rows)

====
